---- MODULE Spec2Model ----
(***************************************************************************)
(* A model of pgx's SQL entity graph for #[pg_extern] functions:           *)
(*   - PgExternEntity::to_sql        (pg_extern/entity/mod.rs)             *)
(*   - TryFrom<&syn::ReturnType> for Returning (pg_extern/returning.rs)    *)
(*   - PgTrigger::new and the wrapper it generates (pg_trigger/mod.rs)     *)
(* Rendered SQL is a sequence of string tokens, in the order the format!   *)
(* templates emit them.  Option<T> is a sequence of length 0 or 1.         *)
(* Result<T, E> and a panic are records tagged "Ok", "Err" and "Panic".    *)
(***************************************************************************)
EXTENDS Integers, Sequences, FiniteSets, TLC

VARIABLES
    entity,      \* the PgExternEntity being rendered (self)
    context,     \* the PgxSql context: graph neighbours of self, internal type
    rendered,    \* what to_sql returned, or NotRendered
    rty,         \* the syn::ReturnType handed to the classifier
    classified,  \* what Returning::try_from returned, or NotClassified
    other,       \* a second PgExternEntity, or NoOther
    compared,    \* what ==, cmp and hash gave for entity and other
    renders,     \* every call of to_sql so far: whose it was, what it returned
    trigger,     \* the inputs of PgTrigger::new and what it returned, or NoTrigger
    call         \* one activation of the generated trigger wrapper, or NoCall

vars == <<entity, context, rendered, rty, classified, other, compared, renders,
          trigger, call>>

----------------------------------------------------------------------------
(* Generic helpers                                                         *)

None == <<>>
Some(x) == <<x>>
IsSome(o) == Len(o) = 1
Unwrap(o) == o[1]

Min(S) == CHOOSE m \in S : \A n \in S : m <= n

RECURSIVE Flatten(_)
Flatten(ss) == IF ss = <<>> THEN <<>> ELSE Head(ss) \o Flatten(Tail(ss))

\* slice::join: the pieces, with sep between consecutive pieces
RECURSIVE Join(_, _)
Join(ss, sep) ==
    IF ss = <<>> THEN <<>>
    ELSE IF Len(ss) = 1 THEN Head(ss)
    ELSE Head(ss) \o sep \o Join(Tail(ss), sep)

Count(s, t) == Cardinality({i \in DOMAIN s : s[i] = t})

\* the tokens of s that belong to K, in the order they appear in s
Filter(s, K) == SelectSeq(s, LAMBDA t : t \in K)

\* all sequences over S of length 0..n
SeqsUpTo(S, n) == UNION {[1..k -> S] : k \in 0..n}

\* the sequences of SeqsUpTo(S, n) that repeat no element
DistinctSeqsUpTo(S, n) ==
    {s \in SeqsUpTo(S, n) : \A i, j \in DOMAIN s : s[i] = s[j] => i = j}

Ok(text) == [tag |-> "Ok", text |-> text, err |-> ""]
Err(msg) == [tag |-> "Err", text |-> <<>>, err |-> msg]
Panic(msg) == [tag |-> "Panic", text |-> <<>>, err |-> msg]

NotRendered == [tag |-> "NotRendered", text |-> <<>>, err |-> ""]

----------------------------------------------------------------------------
(* Error messages of to_sql (the eyre! texts, abbreviated)                 *)

ErrArgNotInGraph == "Could not find arg type in graph"
ErrArgComposite == "Macro expansion time suggested a composite_type!() in return (argument)"
ErrArgMapping == "While mapping argument"
ErrRetNotInGraph == "Could not find return type in graph"
ErrRetComposite == "Macro expansion time suggested a composite_type!() in return"
ErrRetMapping == "Mapping return type"
ErrRetSkip == "At runtime a skipped return value was determined, this is not valid"
ErrSuggestedNone == "Macro expansion time suggested no return value, but at runtime a return value was determined"
ErrSuggestedSetOfGotPlain == "Macro expansion time suggested a SetOfIterator return value, but at runtime a plain return value was determined"
ErrSuggestedTableGotPlain == "Macro expansion time suggested a TableIterator return value, but at runtime a plain return value was determined"
ErrSuggestedTriggerGotPlain == "Macro expansion time suggested a Trigger return value, but at runtime a plain return value was determined"
ErrSuggestedPlainGotSetOf == "Macro expansion time suggested a plain return value, but at runtime a SetOf return value was determined"
ErrSuggestedTableGotSetOf == "Macro expansion time suggested a TableIterator return value, but at runtime a SetOf return value was determined"
ErrSuggestedTriggerGotSetOf == "Macro expansion time suggested a Trigger return value, but at runtime a SetOf return value was determined"
ErrNoLeftArg == "Did not find left_arg for operator"
ErrNoRightArg == "Did not find left_arg for operator (right argument)"
ErrLeftNotInGraph == "Could not find left arg type in graph"
ErrRightNotInGraph == "Could not find right arg type in graph"
ErrOpComposite == "Found a composite type but macro expansion time did not reveal a name"
ErrOpSkip == "Found an skipped SQL type in an operator, this is not valid"
ErrOpMapping == "operator argument mapping error"
PanicTodo == "not yet implemented"
PanicOpname == "called Option::unwrap() on a None value"

----------------------------------------------------------------------------
(* The graph context                                                       *)

\* SqlGraphEntity::Type(ty) => ty.id_matches(id); Enum likewise;
\* BuiltinType(defined) => defined == type_name; anything else never matches
NodeMatches(node, type_id, type_name) ==
    CASE node.kind = "Type" -> node.id = type_id
      [] node.kind = "Enum" -> node.id = type_id
      [] node.kind = "BuiltinType" -> node.name = type_name
      [] OTHER -> FALSE

\* a mutant: a reference that matches nothing resolves to the first neighbour
FindNeighborOrFirst(ctx, type_id, type_name) ==
    LET hits == {i \in DOMAIN ctx.neighbors :
                    NodeMatches(ctx.neighbors[i], type_id, type_name)}
    IN  IF hits = {} THEN Some(ctx.neighbors[1]) ELSE Some(ctx.neighbors[Min(hits)])

\* context.graph.neighbors_undirected(self_index).find(|neighbor| ...):
\* the first neighbour, in the iteration order of the graph, that matches
FindNeighbor(ctx, type_id, type_name) ==
    LET hits == {i \in DOMAIN ctx.neighbors :
                    NodeMatches(ctx.neighbors[i], type_id, type_name)}
    IN  IF hits = {} THEN None ELSE Some(ctx.neighbors[Min(hits)])

\* context.schema_prefix_for(&graph_index): "" or "<namespace>."
schema_prefix_for(node) == node.prefix

----------------------------------------------------------------------------
(* PgExternEntity::to_sql, part 1: strict upgrade and the argument list    *)

Strict == [a |-> "Strict", req |-> <<>>]
Immutable == [a |-> "Immutable", req |-> <<>>]
Requires(list) == [a |-> "Requires", req |-> list]

\* format!("{}", attr).to_uppercase(): Display of ExternArgs prints the SQL
\* keyword of a flag and nothing for Requires(..)
AttrDisplay(attr) ==
    CASE attr.a = "Strict" -> "STRICT"
      [] attr.a = "Immutable" -> "IMMUTABLE"
      [] OTHER -> ""

\* a mutant: the scan over the arguments is skipped
StrictUpgradeNoScan(e, ctx) ==
    ~(\E i \in DOMAIN e.extern_attrs : e.extern_attrs[i] = Strict)

\* let mut strict_upgrade = !extern_attrs.iter().any(|i| i == &Strict);
\* then cleared by any argument that is optional or of the internal type
StrictUpgrade(e, ctx) ==
    /\ ~(\E i \in DOMAIN e.extern_attrs : e.extern_attrs[i] = Strict)
    /\ \A i \in DOMAIN e.metadata.arguments :
          ~(e.metadata.arguments[i].optional
            \/ e.metadata.arguments[i].type_id = ctx.internal_type)

\* a mutant: Strict is put in front of the declared attributes
UpgradedAttrsStrictFirst(e, ctx) ==
    IF StrictUpgrade(e, ctx) THEN <<Strict>> \o e.extern_attrs
    ELSE e.extern_attrs

\* the local extern_attrs: a clone of self.extern_attrs, Strict pushed last
UpgradedAttrs(e, ctx) ==
    IF StrictUpgrade(e, ctx) THEN Append(e.extern_attrs, Strict)
    ELSE e.extern_attrs

Quoted(name) == "\"" \o name \o "\""
TypeComment(type_name) == "/* " \o type_name \o " */"

\* format!("{v}[]") or format!("{v}")
CompositeSql(v, requires_array_brackets) ==
    IF requires_array_brackets THEN v \o "[]" ELSE v

\* the format! of one emitted argument line
ArgBuf(pattern, variadic, prefix, sql_type, default, needs_comma, type_name) ==
    <<Quoted(pattern)>>
    \o (IF variadic THEN <<"VARIADIC">> ELSE <<>>)
    \o <<prefix, sql_type>>
    \o (IF IsSome(default) THEN <<"DEFAULT", Unwrap(default)>> ELSE <<>>)
    \o (IF needs_comma THEN <<",">> ELSE <<>>)
    \o <<TypeComment(type_name)>>

\* one turn of the loop over self.metadata.arguments: an error, or the
\* lines pushed to args by this turn (none for SqlVariant::Skip)
RenderArg(e, ctx, idx) ==
    LET arg == e.metadata.arguments[idx]
        fn_arg == e.fn_args[idx]
        graph_index == FindNeighbor(ctx, arg.type_id, arg.type_name)
        needs_comma == idx < Len(e.metadata.arguments)
        Buf(sql) == ArgBuf(fn_arg.pattern, arg.variadic,
                           schema_prefix_for(Unwrap(graph_index)), sql,
                           fn_arg.default, needs_comma, arg.type_name)
    IN  IF ~IsSome(graph_index) THEN [ok |-> FALSE, err |-> ErrArgNotInGraph, bufs |-> <<>>]
        ELSE IF arg.argument_sql.r = "Err"
        THEN [ok |-> FALSE, err |-> ErrArgMapping, bufs |-> <<>>]
        ELSE CASE arg.argument_sql.v = "Mapped" ->
                    [ok |-> TRUE, err |-> "", bufs |-> <<Buf(arg.argument_sql.sql)>>]
               [] arg.argument_sql.v = "Composite" ->
                    IF IsSome(fn_arg.composite_type)
                    THEN [ok |-> TRUE, err |-> "",
                          bufs |-> <<Buf(CompositeSql(Unwrap(fn_arg.composite_type),
                                                      arg.argument_sql.brackets))>>]
                    ELSE [ok |-> FALSE, err |-> ErrArgComposite, bufs |-> <<>>]
               [] arg.argument_sql.v = "Skip" ->
                    [ok |-> TRUE, err |-> "", bufs |-> <<>>]

\* the loop, from index idx on, with the lines pushed so far
RECURSIVE RenderArgsFrom(_, _, _, _)
RenderArgsFrom(e, ctx, idx, args) ==
    IF idx > Len(e.metadata.arguments) THEN [ok |-> TRUE, err |-> "", bufs |-> args]
    ELSE LET r == RenderArg(e, ctx, idx)
         IN  IF ~r.ok THEN r
             ELSE RenderArgsFrom(e, ctx, idx + 1, args \o r.bufs)

\* arguments = if !self.metadata.arguments.is_empty() { "\n" + join + "\n" }
RenderArguments(e, ctx) ==
    IF e.metadata.arguments = <<>> THEN [ok |-> TRUE, err |-> "", text |-> <<>>]
    ELSE LET r == RenderArgsFrom(e, ctx, 1, <<>>)
         IN  IF ~r.ok THEN [ok |-> FALSE, err |-> r.err, text |-> <<>>]
             ELSE [ok |-> TRUE, err |-> "", text |-> Join(r.bufs, <<>>)]

----------------------------------------------------------------------------
(* PgExternEntity::to_sql, part 2: the RETURNS clause                      *)

RetOk(text) == [tag |-> "Ok", err |-> "", text |-> text]
RetErr(msg) == [tag |-> "Err", err |-> msg, text |-> <<>>]
RetPanic(msg) == [tag |-> "Panic", err |-> msg, text |-> <<>>]

\* Ok(ReturnVariant::Plain(ref variant)) => ("", match variant { .. })
PlainSqlType(e, variant) ==
    CASE variant.v = "Mapped" -> RetOk(<<variant.sql>>)
      [] variant.v = "Composite" ->
            (CASE e.fn_return.v = "None" -> RetErr(ErrSuggestedNone)
               [] e.fn_return.v = "Type" ->
                     IF IsSome(e.fn_return.composite_type)
                     THEN RetOk(<<CompositeSql(Unwrap(e.fn_return.composite_type),
                                               variant.brackets)>>)
                     ELSE RetErr(ErrRetComposite)
               [] e.fn_return.v = "SetOf" -> RetErr(ErrSuggestedSetOfGotPlain)
               [] e.fn_return.v = "Iterated" -> RetErr(ErrSuggestedTableGotPlain)
               [] e.fn_return.v = "Trigger" -> RetErr(ErrSuggestedTriggerGotPlain))
      [] variant.v = "Skip" -> RetErr(ErrRetSkip)

\* Ok(ReturnVariant::SetOf(ref variant)) => ("SETOF ", match variant { .. })
SetOfSqlType(e, variant) ==
    CASE variant.v = "Mapped" -> RetOk(<<variant.sql>>)
      [] variant.v = "Composite" ->
            (CASE e.fn_return.v = "None" -> RetErr(ErrSuggestedNone)
               [] e.fn_return.v = "Type" -> RetErr(ErrSuggestedPlainGotSetOf)
               [] e.fn_return.v = "SetOf" ->
                     IF IsSome(e.fn_return.composite_type)
                     THEN RetOk(<<CompositeSql(Unwrap(e.fn_return.composite_type),
                                               variant.brackets)>>)
                     ELSE RetErr(ErrRetComposite)
               [] e.fn_return.v = "Iterated" -> RetErr(ErrSuggestedTableGotSetOf)
               [] e.fn_return.v = "Trigger" -> RetErr(ErrSuggestedTriggerGotSetOf))
      [] variant.v = "Skip" -> RetPanic(PanicTodo)

\* Ok(ReturnVariant::Table(ref vec_of_variant)) => ("TABLE ", "TODO".into())
TableSqlType(e, vec_of_variant) == RetOk(<<"TODO">>)

\* let (variant_prefix, sql_type) = match retval.return_sql { .. }
VariantPrefix(return_sql) ==
    CASE return_sql.rv = "Plain" -> <<>>
      [] return_sql.rv = "SetOf" -> <<"SETOF">>
      [] return_sql.rv = "Table" -> <<"TABLE">>

\* returns = match self.metadata.retval { None => "RETURNS void", Some(..) }
RenderReturns(e, ctx) ==
    IF ~IsSome(e.metadata.retval) THEN RetOk(<<"RETURNS", "void">>)
    ELSE LET retval == Unwrap(e.metadata.retval)
             graph_index == FindNeighbor(ctx, retval.type_id, retval.type_name)
             sql_type ==
                 CASE retval.return_sql.rv = "Plain" ->
                        PlainSqlType(e, retval.return_sql.variant)
                   [] retval.return_sql.rv = "SetOf" ->
                        SetOfSqlType(e, retval.return_sql.variant)
                   [] retval.return_sql.rv = "Table" ->
                        TableSqlType(e, retval.return_sql.cols)
         IN  IF ~IsSome(graph_index) THEN RetErr(ErrRetNotInGraph)
             ELSE IF retval.return_sql.r = "Err" THEN RetErr(ErrRetMapping)
             ELSE IF sql_type.tag # "Ok" THEN sql_type
             ELSE RetOk(<<"RETURNS">> \o VariantPrefix(retval.return_sql)
                        \o <<schema_prefix_for(Unwrap(graph_index))>>
                        \o sql_type.text
                        \o <<TypeComment(retval.type_name)>>)

----------------------------------------------------------------------------
(* PgExternEntity::to_sql, part 3: the CREATE FUNCTION block               *)

\* search_path = if let Some(search_path) = &self.search_path { .. }
RenderSearchPath(e) ==
    IF IsSome(e.search_path)
    THEN <<"SET search_path TO">> \o Join([i \in DOMAIN Unwrap(e.search_path) |->
                                            <<Unwrap(e.search_path)[i]>>], <<",">>)
    ELSE <<>>

\* extern_attrs = the upgraded list, each upper-cased, joined by " "
RenderAttrs(e, ctx) ==
    [i \in DOMAIN UpgradedAttrs(e, ctx) |-> AttrDisplay(UpgradedAttrs(e, ctx)[i])]

\* requires = the requirements of every Requires(..) of self.extern_attrs
RenderRequires(e) ==
    LET requires_attrs ==
            Flatten([i \in DOMAIN e.extern_attrs |->
                        IF e.extern_attrs[i].a = "Requires"
                        THEN e.extern_attrs[i].req ELSE <<>>])
    IN  IF requires_attrs # <<>>
        THEN <<"-- requires:">> \o [i \in DOMAIN requires_attrs |->
                                      "--   " \o requires_attrs[i]]
        ELSE <<>>

\* the comment header of a block: -- {file}:{line} and -- {module_path}::{name}
Header(e) == <<"-- " \o e.file \o ":" \o e.line, "-- " \o e.module_path \o "::" \o e.name>>

\* schema = self.schema.map(|s| format!("{}.", s))
\*              .unwrap_or_else(|| context.schema_prefix_for(&self_index))
FnSchema(e, ctx) ==
    IF IsSome(e.schema) THEN Unwrap(e.schema) \o "." ELSE ctx.self_prefix

\* ext_sql: header, requires and fn_sql; the format! arguments are
\* evaluated in the order arguments, returns, so an argument error wins
RenderFunction(e, ctx) ==
    LET arguments == RenderArguments(e, ctx)
        returns == RenderReturns(e, ctx)
    IN  IF ~arguments.ok THEN Err(arguments.err)
        ELSE IF returns.tag = "Err" THEN Err(returns.err)
        ELSE IF returns.tag = "Panic" THEN Panic(returns.err)
        ELSE Ok(Header(e) \o RenderRequires(e)
                \o <<"CREATE FUNCTION", FnSchema(e, ctx), Quoted(e.name), "(">>
                \o arguments.text \o <<")">>
                \o returns.text
                \o RenderAttrs(e, ctx)
                \o RenderSearchPath(e)
                \o <<"LANGUAGE c", "AS", ctx.module_pathname, e.name \o "_wrapper", ";">>)

----------------------------------------------------------------------------
(* PgExternEntity::to_sql, part 4: the CREATE OPERATOR block               *)

\* a mutant: the negator is pushed under the commutator test
OptionalsNegatorWithCommutator(op) ==
    (IF IsSome(op.commutator) THEN <<<<"COMMUTATOR", "=", Unwrap(op.commutator)>>>> ELSE <<>>)
    \o (IF IsSome(op.commutator) /\ IsSome(op.negator)
        THEN <<<<"NEGATOR", "=", Unwrap(op.negator)>>>> ELSE <<>>)
    \o (IF IsSome(op.restrict) THEN <<<<"RESTRICT", "=", Unwrap(op.restrict)>>>> ELSE <<>>)
    \o (IF IsSome(op.join) THEN <<<<"JOIN", "=", Unwrap(op.join)>>>> ELSE <<>>)
    \o (IF op.hashes THEN <<<<"HASHES">>>> ELSE <<>>)
    \o (IF op.merges THEN <<<<"MERGES">>>> ELSE <<>>)

\* let mut optionals = vec![]; one push per clause that is set, in this order
Optionals(op) ==
    (IF IsSome(op.commutator) THEN <<<<"COMMUTATOR", "=", Unwrap(op.commutator)>>>> ELSE <<>>)
    \o (IF IsSome(op.negator) THEN <<<<"NEGATOR", "=", Unwrap(op.negator)>>>> ELSE <<>>)
    \o (IF IsSome(op.restrict) THEN <<<<"RESTRICT", "=", Unwrap(op.restrict)>>>> ELSE <<>>)
    \o (IF IsSome(op.join) THEN <<<<"JOIN", "=", Unwrap(op.join)>>>> ELSE <<>>)
    \o (IF op.hashes THEN <<<<"HASHES">>>> ELSE <<>>)
    \o (IF op.merges THEN <<<<"MERGES">>>> ELSE <<>>)

\* let left_arg_sql = match left_arg.argument_sql { .. }: both branches of
\* the Composite arm read self.fn_args[0]
LeftArgSql(e) ==
    LET left_arg == e.metadata.arguments[1]
    IN  IF left_arg.argument_sql.r = "Err" THEN RetErr(ErrOpMapping)
        ELSE CASE left_arg.argument_sql.v = "Mapped" -> RetOk(<<left_arg.argument_sql.sql>>)
               [] left_arg.argument_sql.v = "Composite" ->
                    IF IsSome(e.fn_args[1].composite_type)
                    THEN RetOk(<<CompositeSql(Unwrap(e.fn_args[1].composite_type),
                                              left_arg.argument_sql.brackets)>>)
                    ELSE RetErr(ErrOpComposite)
               [] left_arg.argument_sql.v = "Skip" -> RetErr(ErrOpSkip)

\* let right_arg_sql = match right_arg.argument_sql { .. }: the Composite arm
\* reads self.fn_args[1] when brackets are required and self.fn_args[0] when
\* they are not
RightArgSql(e) ==
    LET right_arg == e.metadata.arguments[2]
    IN  IF right_arg.argument_sql.r = "Err" THEN RetErr(ErrOpMapping)
        ELSE CASE right_arg.argument_sql.v = "Mapped" -> RetOk(<<right_arg.argument_sql.sql>>)
               [] right_arg.argument_sql.v = "Composite" ->
                    IF right_arg.argument_sql.brackets
                    THEN IF IsSome(e.fn_args[2].composite_type)
                         THEN RetOk(<<Unwrap(e.fn_args[2].composite_type) \o "[]">>)
                         ELSE RetErr(ErrOpComposite)
                    ELSE IF IsSome(e.fn_args[1].composite_type)
                         THEN RetOk(<<Unwrap(e.fn_args[1].composite_type)>>)
                         ELSE RetErr(ErrOpComposite)
               [] right_arg.argument_sql.v = "Skip" -> RetErr(ErrOpSkip)

\* the operator_sql format!, once both arguments are resolved
OperatorSql(e, op, left_prefix, left_sql, right_prefix, right_sql) ==
    Header(e)
    \o <<"CREATE OPERATOR", Unwrap(op.opname), "(", "PROCEDURE=", Quoted(e.name), ",">>
    \o <<"LEFTARG=", left_prefix>> \o left_sql
    \o <<",", TypeComment(e.metadata.arguments[1].type_name)>>
    \o <<"RIGHTARG=", right_prefix>> \o right_sql
    \o (IF Len(Optionals(op)) >= 1 THEN <<",">> ELSE <<>>)
    \o <<TypeComment(e.metadata.arguments[2].type_name)>>
    \o Join(Optionals(op), <<",">>)
    \o <<")", ";">>

\* if let Some(op) = &self.operator { .. }: the second block, or the error
\* or panic that ends to_sql
RenderOperator(e, ctx) ==
    LET op == Unwrap(e.operator)
        arguments == e.metadata.arguments
        left_graph == FindNeighbor(ctx, arguments[1].type_id, arguments[1].type_name)
        right_graph == FindNeighbor(ctx, arguments[2].type_id, arguments[2].type_name)
    IN  IF Len(arguments) < 1 THEN Err(ErrNoLeftArg)
        ELSE IF ~IsSome(left_graph) THEN Err(ErrLeftNotInGraph)
        ELSE IF LeftArgSql(e).tag # "Ok" THEN Err(LeftArgSql(e).err)
        ELSE IF Len(arguments) < 2 THEN Err(ErrNoRightArg)
        ELSE IF ~IsSome(right_graph) THEN Err(ErrRightNotInGraph)
        ELSE IF RightArgSql(e).tag # "Ok" THEN Err(RightArgSql(e).err)
        ELSE IF ~IsSome(op.opname) THEN Panic(PanicOpname)
        ELSE Ok(OperatorSql(e, op,
                            schema_prefix_for(Unwrap(left_graph)), LeftArgSql(e).text,
                            schema_prefix_for(Unwrap(right_graph)), RightArgSql(e).text))

\* a mutant: the operator block is put before the function block
to_sqlOperatorFirst(e, ctx) ==
    LET ext_sql == RenderFunction(e, ctx)
    IN  IF ext_sql.tag # "Ok" THEN ext_sql
        ELSE IF ~IsSome(e.operator) THEN ext_sql
        ELSE LET operator_sql == RenderOperator(e, ctx)
             IN  IF operator_sql.tag # "Ok" THEN operator_sql
                 ELSE Ok(operator_sql.text \o ext_sql.text)

\* fn to_sql(&self, context: &PgxSql) -> eyre::Result<String>
to_sql(e, ctx) ==
    LET ext_sql == RenderFunction(e, ctx)
    IN  IF ext_sql.tag # "Ok" THEN ext_sql
        ELSE IF ~IsSome(e.operator) THEN ext_sql
        ELSE LET operator_sql == RenderOperator(e, ctx)
             IN  IF operator_sql.tag # "Ok" THEN operator_sql
                 ELSE Ok(ext_sql.text \o operator_sql.text)

----------------------------------------------------------------------------
(* The inputs of to_sql: entities and the frozen graph                     *)

MaxArgs == 2       \* arguments of a function, attribute family
MaxAttrs == 2      \* declared attributes of a function
MaxOpArgs == 3     \* arguments of a function, operator family
MaxCols == 2       \* columns of a table return

Mapped(sql) == [r |-> "Ok", v |-> "Mapped", sql |-> sql, brackets |-> FALSE]
Composite(requires_array_brackets) ==
    [r |-> "Ok", v |-> "Composite", sql |-> "", brackets |-> requires_array_brackets]
Skip == [r |-> "Ok", v |-> "Skip", sql |-> "", brackets |-> FALSE]
MappingErr == [r |-> "Err", v |-> "", sql |-> "", brackets |-> FALSE]

\* the neighbours of the function in the graph, in iteration order
Neighbors ==
    << [kind |-> "Function", id |-> "helper", name |-> "helper", prefix |-> ""],
       [kind |-> "BuiltinType", id |-> "", name |-> "i32", prefix |-> ""],
       [kind |-> "BuiltinType", id |-> "", name |-> "String", prefix |-> ""],
       [kind |-> "BuiltinType", id |-> "", name |-> "Internal", prefix |-> ""],
       [kind |-> "BuiltinType", id |-> "", name |-> "PgHeapTuple", prefix |-> ""],
       [kind |-> "BuiltinType", id |-> "", name |-> "bool", prefix |-> ""],
       [kind |-> "Type", id |-> "Custom", name |-> "Custom", prefix |-> "ext."],
       [kind |-> "Enum", id |-> "Color", name |-> "Color", prefix |-> "ext."] >>

Context0 ==
    [neighbors |-> Neighbors, internal_type |-> "Internal",
     module_pathname |-> "MODULE_PATHNAME", self_prefix |-> ""]

Contexts == {Context0}

\* one argument as the two records kept for it: metadata.arguments[i]
\* (type, flags, realized SQL) and fn_args[i].used_ty (default, composite name)
ArgKind(type, optional, variadic, argument_sql, default, composite_type) ==
    [type_id |-> type, type_name |-> type, optional |-> optional,
     variadic |-> variadic, argument_sql |-> argument_sql,
     default |-> default, composite_type |-> composite_type]

KPlain == ArgKind("i32", FALSE, FALSE, Mapped("integer"), None, None)
KOptional == ArgKind("String", TRUE, FALSE, Mapped("text"), None, None)
KInternal == ArgKind("Internal", FALSE, FALSE, Mapped("internal"), None, None)
KCustom == ArgKind("Custom", FALSE, FALSE, Mapped("Custom"), None, None)
KDog == ArgKind("PgHeapTuple", FALSE, FALSE, Composite(FALSE), None, Some("Dog"))
KCats == ArgKind("PgHeapTuple", FALSE, FALSE, Composite(TRUE), None, Some("Cat"))
KUnnamed == ArgKind("PgHeapTuple", FALSE, FALSE, Composite(FALSE), None, None)
KSkip == ArgKind("i32", FALSE, FALSE, Skip, None, None)
KVariadic == ArgKind("String", FALSE, TRUE, Mapped("text"), Some("NULL"), None)
KErr == ArgKind("i32", FALSE, FALSE, MappingErr, None, None)
KMissing == ArgKind("Missing", FALSE, FALSE, Mapped("missing"), None, None)

Patterns == <<"a", "b", "c", "d", "e">>

MetadataArgument(k) ==
    [type_id |-> k.type_id, type_name |-> k.type_name, optional |-> k.optional,
     variadic |-> k.variadic, argument_sql |-> k.argument_sql]
FnArg(k, idx) ==
    [pattern |-> Patterns[idx], default |-> k.default, composite_type |-> k.composite_type]

Retval(type, return_sql) == [type_id |-> type, type_name |-> type, return_sql |-> return_sql]
Plain(variant) == [r |-> "Ok", rv |-> "Plain", variant |-> variant, cols |-> <<>>]
SetOf(variant) == [r |-> "Ok", rv |-> "SetOf", variant |-> variant, cols |-> <<>>]
Table(cols) == [r |-> "Ok", rv |-> "Table", variant |-> Skip, cols |-> cols]
ReturnErr == [r |-> "Err", rv |-> "", variant |-> Skip, cols |-> <<>>]

ReturnNone == [v |-> "None", composite_type |-> None, items |-> <<>>]
ReturnType(composite_type) == [v |-> "Type", composite_type |-> composite_type, items |-> <<>>]
ReturnSetOf(composite_type) == [v |-> "SetOf", composite_type |-> composite_type, items |-> <<>>]
ReturnIterated(items) == [v |-> "Iterated", composite_type |-> None, items |-> items]
ReturnTrigger == [v |-> "Trigger", composite_type |-> None, items |-> <<>>]

Operator(opname, commutator, negator, restrict, join, hashes, merges) ==
    [opname |-> opname, commutator |-> commutator, negator |-> negator,
     restrict |-> restrict, join |-> join, hashes |-> hashes, merges |-> merges]

\* a PgExternEntity; fn_args and metadata.arguments describe the same
\* parameters, so they have the same length
Entity(kinds, extern_attrs, retval, fn_return, operator, schema, search_path) ==
    [name |-> "my_fn", module_path |-> "my_ext", file |-> "src/lib.rs", line |-> "42",
     metadata |-> [arguments |-> [i \in DOMAIN kinds |-> MetadataArgument(kinds[i])],
                   retval |-> retval],
     fn_args |-> [i \in DOMAIN kinds |-> FnArg(kinds[i], i)],
     fn_return |-> fn_return,
     schema |-> schema,
     extern_attrs |-> extern_attrs,
     search_path |-> search_path,
     operator |-> operator]

NoReturnType == [k |-> "Unused"]
NotClassified == [tag |-> "NotClassified", ret |-> [v |-> "None"], err |-> ""]
NoOther == [name |-> ""]
NotCompared == [tag |-> "NotCompared"]

\* nothing was compared and to_sql was not called through the log
IdleComparison == other = NoOther /\ compared = NotCompared /\ renders = <<>>

NoTrigger == [made |-> [tag |-> "Undeclared"]]
NoCall == [pc |-> "none"]

\* no trigger function was declared and no wrapper is running
IdleTrigger == trigger = NoTrigger /\ call = NoCall

\* to_sql is called on the entity with the frozen context
Render ==
    /\ rendered = NotRendered
    /\ rendered' = to_sql(entity, context)
    /\ UNCHANGED <<entity, context, rty, classified, other, compared, renders, trigger, call>>

----------------------------------------------------------------------------
(* Attribute family: declared attributes x argument lists                  *)

AttrPool == {Strict, Immutable, Requires(<<"other_ext">>)}
AttrArgPool == {KPlain, KOptional, KInternal, KCustom, KDog, KSkip, KVariadic, KErr, KMissing}

AttrEntities ==
    {Entity(kinds, attrs, ret[1], ret[2], None, None, sp) :
        kinds \in SeqsUpTo(AttrArgPool, MaxArgs),
        attrs \in DistinctSeqsUpTo(AttrPool, MaxAttrs),
        ret \in {<<None, ReturnNone>>,
                 <<Some(Retval("String", Plain(Mapped("text")))), ReturnType(None)>>},
        sp \in {None, Some(<<"public", "pg_temp">>)}}

InitAttrs ==
    /\ entity \in AttrEntities
    /\ context \in Contexts
    /\ rendered = NotRendered
    /\ rty = NoReturnType
    /\ classified = NotClassified
    /\ IdleComparison
    /\ IdleTrigger

SpecAttrs == InitAttrs /\ [][Render]_vars

----------------------------------------------------------------------------
(* Return family: realized return payloads x declared return shapes        *)

ReturnVariants == {Mapped("text"), Composite(FALSE), Composite(TRUE), Skip}
TableCols == {Mapped("text"), Mapped("integer")}
IteratedItems ==
    {[ty |-> "String", name |-> Some("dog_name")],
     [ty |-> "i32", name |-> Some("dog_age")],
     [ty |-> "i32", name |-> None]}

NonEmptySeqsUpTo(S, n) == SeqsUpTo(S, n) \ {<<>>}

ReturnSqls ==
    {Plain(v) : v \in ReturnVariants} \cup {SetOf(v) : v \in ReturnVariants}
    \cup {Table(cols) : cols \in NonEmptySeqsUpTo(TableCols, MaxCols)}
    \cup {ReturnErr}

Retvals ==
    {None} \cup {Some(Retval(type, return_sql)) :
                    type \in {"String", "Custom", "Missing"}, return_sql \in ReturnSqls}

FnReturns ==
    {ReturnNone, ReturnTrigger}
    \cup {ReturnType(c) : c \in {None, Some("Dog")}}
    \cup {ReturnSetOf(c) : c \in {None, Some("Dog")}}
    \cup {ReturnIterated(items) : items \in NonEmptySeqsUpTo(IteratedItems, MaxCols)}

ReturnEntities ==
    {Entity(kinds, <<>>, retval, fn_return, None, schema, None) :
        kinds \in {<<>>, <<KPlain>>},
        retval \in Retvals,
        fn_return \in FnReturns,
        schema \in {None, Some("my_schema")}}

InitReturns ==
    /\ entity \in ReturnEntities
    /\ context \in Contexts
    /\ rendered = NotRendered
    /\ rty = NoReturnType
    /\ classified = NotClassified
    /\ IdleComparison
    /\ IdleTrigger

SpecReturns == InitReturns /\ [][Render]_vars

----------------------------------------------------------------------------
(* Operator family: operator metadata x argument lists                     *)

OpArgPool == {KPlain, KDog, KCats, KUnnamed, KSkip}

OptionalName(n) == {None, Some(n)}

Operators ==
    {Operator(Some("==="), c, n, r, j, h, m) :
        c \in OptionalName("<=>"), n \in OptionalName("!=="),
        r \in OptionalName("eqsel"), j \in OptionalName("eqjoinsel"),
        h \in BOOLEAN, m \in BOOLEAN}
    \cup {Operator(None, Some("<=>"), None, None, None, FALSE, FALSE)}

\* operands that fail before the operator part is reached
OpFailingArgPool == {KErr, KMissing}

OperatorEntities ==
    {Entity(kinds, <<>>, Some(Retval("bool", Plain(Mapped("bool")))), ReturnType(None),
            Some(op), None, None) :
        kinds \in SeqsUpTo(OpArgPool, MaxOpArgs),
        op \in Operators}

\* operator functions that fail in the function statement
OperatorFailingEntities ==
    {Entity(kinds, <<>>, Some(Retval(type, Plain(Mapped("bool")))), ReturnType(None),
            Some(Operator(Some("==="), c, None, None, None, FALSE, FALSE)), None, None) :
        kinds \in SeqsUpTo(OpArgPool \cup OpFailingArgPool, MaxOpArgs),
        type \in {"bool", "Missing"},
        c \in OptionalName("<=>")}

InitOperator ==
    /\ (entity \in OperatorEntities \/ entity \in OperatorFailingEntities)
    /\ context \in Contexts
    /\ rendered = NotRendered
    /\ rty = NoReturnType
    /\ classified = NotClassified
    /\ IdleComparison
    /\ IdleTrigger

SpecOperator == InitOperator /\ [][Render]_vars

----------------------------------------------------------------------------
(* The failure classes of the error taxonomy, by the message to_sql gives   *)

ReturnShapeMismatch ==
    {ErrSuggestedNone, ErrSuggestedSetOfGotPlain, ErrSuggestedTableGotPlain,
     ErrSuggestedTriggerGotPlain, ErrSuggestedPlainGotSetOf,
     ErrSuggestedTableGotSetOf, ErrSuggestedTriggerGotSetOf}
InvalidOperatorArity == {ErrNoLeftArg, ErrNoRightArg}
MissingCompositeName == {ErrArgComposite, ErrRetComposite, ErrOpComposite}
UnresolvedTypeReference ==
    {ErrArgNotInGraph, ErrRetNotInGraph, ErrLeftNotInGraph, ErrRightNotInGraph}

Fails(class) == rendered.tag = "Err" /\ rendered.err \in class /\ rendered.text = <<>>

IndexOf(s, t) == Min({i \in DOMAIN s : s[i] = t})
Has(s, t) == \E i \in DOMAIN s : s[i] = t

Args == entity.metadata.arguments
DeclaresStrict == \E i \in DOMAIN entity.extern_attrs : entity.extern_attrs[i].a = "Strict"
NoOptionalArg == \A i \in DOMAIN Args : ~Args[i].optional
NoInternalArg == \A i \in DOMAIN Args : Args[i].type_id # context.internal_type

----------------------------------------------------------------------------
(* C1 *)

\* C1: a rendered function carries one STRICT more than it declares exactly
\* when it declares no Strict, has no optional argument and no argument of
\* the internal type, and none more otherwise; STRICT is never rendered twice.
C1_StrictAddedIff ==
    rendered.tag = "Ok" =>
        /\ Count(rendered.text, "STRICT") - Count(entity.extern_attrs, Strict)
             = (IF ~DeclaresStrict /\ NoOptionalArg /\ NoInternalArg THEN 1 ELSE 0)
        /\ Count(rendered.text, "STRICT") <= 1

\* a function with arguments, none optional or internal, and no declared
\* Strict was rendered with STRICT
C1_Witness ==
    /\ rendered.tag = "Ok"
    /\ ~DeclaresStrict /\ Args # <<>> /\ NoOptionalArg /\ NoInternalArg
    /\ entity.extern_attrs # <<>>
    /\ Count(rendered.text, "STRICT") = 1

----------------------------------------------------------------------------
(* C2 *)

Retval0 == Unwrap(entity.metadata.retval)

\* the realized payload: "absent", "Plain", "SetOf" or "Table"
RealizedClass ==
    IF ~IsSome(entity.metadata.retval) THEN "absent" ELSE Retval0.return_sql.rv

\* the payload a declared shape stands for; Trigger stands for none of them
DeclaredClass ==
    CASE entity.fn_return.v = "None" -> "absent"
      [] entity.fn_return.v = "Type" -> "Plain"
      [] entity.fn_return.v = "SetOf" -> "SetOf"
      [] entity.fn_return.v = "Iterated" -> "Table"
      [] entity.fn_return.v = "Trigger" -> "Trigger"

\* the return clause is reached and its payload is a Mapped or Composite
\* Plain/SetOf, a Table, or absent
ReturnPayloadUsable ==
    \/ ~IsSome(entity.metadata.retval)
    \/ /\ IsSome(FindNeighbor(context, Retval0.type_id, Retval0.type_name))
       /\ Retval0.return_sql.r = "Ok"
       /\ \/ Retval0.return_sql.rv = "Table"
          \/ Retval0.return_sql.variant.v \in {"Mapped", "Composite"}

\* C2: whenever the declared shape and the realized payload differ in
\* structural class, to_sql fails with ReturnShapeMismatch and no text,
\* for a Mapped payload as for a Composite one.
C2_MismatchFails ==
    (/\ rendered.tag # "NotRendered"
     /\ ReturnPayloadUsable
     /\ entity.fn_return.v # "Trigger"
     /\ DeclaredClass # RealizedClass)
        => Fails(ReturnShapeMismatch)

----------------------------------------------------------------------------
(* C3 *)

\* the tokens of the return clause between TABLE and the type comment,
\* without the schema prefix
TableClause(text) ==
    LET p == IndexOf(text, "TABLE")
        q == Min({i \in DOMAIN text : i > p /\ text[i] = TypeComment(Retval0.type_name)})
    IN  SubSeq(text, p + 2, q - 1)

\* the columns a table return declares: the quoted name, when there is
\* one, and the mapped SQL type of each column, in declaration order
DeclaredColumns ==
    Flatten([i \in DOMAIN entity.fn_return.items |->
                (IF IsSome(entity.fn_return.items[i].name)
                 THEN <<Quoted(Unwrap(entity.fn_return.items[i].name))>> ELSE <<>>)
                \o <<Retval0.return_sql.cols[i].sql>>])

\* C3: an Iterated return of n columns renders RETURNS TABLE with exactly
\* those n columns, each with its declared name and mapped SQL type, in
\* declaration order.
C3_TableColumnsRendered ==
    (/\ rendered.tag # "NotRendered"
     /\ entity.fn_return.v = "Iterated"
     /\ RealizedClass = "Table"
     /\ ReturnPayloadUsable
     /\ Len(Retval0.return_sql.cols) = Len(entity.fn_return.items))
        => /\ rendered.tag = "Ok"
           /\ Has(rendered.text, "TABLE")
           /\ TableClause(rendered.text) = DeclaredColumns

----------------------------------------------------------------------------
(* C4 *)

HasOperator == IsSome(entity.operator)
Op == Unwrap(entity.operator)

\* the function statement renders and every argument, being no Skip, renders
\* as an operand: nothing but the argument count can fail the operator
OperandsRender ==
    /\ RenderArguments(entity, context).ok
    /\ RenderReturns(entity, context).tag = "Ok"
    /\ \A i \in DOMAIN Args : Args[i].argument_sql.v # "Skip"
    /\ IsSome(Op.opname)

\* C4: with operator metadata, to_sql succeeds only for exactly two
\* arguments; any other count fails with InvalidOperatorArity and produces
\* no CREATE OPERATOR text.
C4_OperatorNeedsTwoArgs ==
    (rendered.tag # "NotRendered" /\ HasOperator) =>
        /\ rendered.tag = "Ok" => Len(Args) = 2
        /\ (Len(Args) # 2 /\ OperandsRender) => Fails(InvalidOperatorArity)
        /\ Len(Args) # 2 => ~Has(rendered.text, "CREATE OPERATOR")

----------------------------------------------------------------------------
(* C5 *)

\* the schema prefix and SQL type that follow a keyword token
TypeAfter(text, keyword) ==
    LET p == IndexOf(text, keyword) IN <<text[p + 1], text[p + 2]>>

\* the schema prefix and SQL type of the argument list line of pattern
TypeInArgumentList(text, pattern) ==
    LET p == IndexOf(text, Quoted(pattern))
        q == IF text[p + 1] = "VARIADIC" THEN p + 2 ELSE p + 1
    IN  <<text[q], text[q + 1]>>

\* C5: LEFTARG is rendered as argument 0 and RIGHTARG as argument 1 are
\* rendered in the argument list of the function; a composite right
\* argument gets the composite name declared on argument 1.
C5_OperandsAsArguments ==
    (rendered.tag = "Ok" /\ HasOperator) =>
        /\ TypeAfter(rendered.text, "LEFTARG=")
             = TypeInArgumentList(rendered.text, entity.fn_args[1].pattern)
        /\ TypeAfter(rendered.text, "RIGHTARG=")
             = TypeInArgumentList(rendered.text, entity.fn_args[2].pattern)

----------------------------------------------------------------------------
(* C6 *)

ClauseKeywords == <<"COMMUTATOR", "NEGATOR", "RESTRICT", "JOIN", "HASHES", "MERGES">>

ClauseSet(op, keyword) ==
    CASE keyword = "COMMUTATOR" -> IsSome(op.commutator)
      [] keyword = "NEGATOR" -> IsSome(op.negator)
      [] keyword = "RESTRICT" -> IsSome(op.restrict)
      [] keyword = "JOIN" -> IsSome(op.join)
      [] keyword = "HASHES" -> op.hashes
      [] keyword = "MERGES" -> op.merges

ClauseValue(op, keyword) ==
    CASE keyword = "COMMUTATOR" -> op.commutator
      [] keyword = "NEGATOR" -> op.negator
      [] keyword = "RESTRICT" -> op.restrict
      [] keyword = "JOIN" -> op.join
      [] OTHER -> None

\* C6: the optional clauses rendered are exactly those whose metadata is
\* set, once each, in the order COMMUTATOR, NEGATOR, RESTRICT, JOIN, HASHES,
\* MERGES, each named clause as KEYWORD = <name>; a comma follows RIGHTARG
\* iff at least one optional clause is rendered.
C6_OptionalClauses ==
    (rendered.tag = "Ok" /\ HasOperator) =>
        LET text == rendered.text
            keywords == {ClauseKeywords[i] : i \in DOMAIN ClauseKeywords}
            right == IndexOf(text, "RIGHTARG=")
        IN  /\ Filter(text, keywords)
                 = SelectSeq(ClauseKeywords, LAMBDA k : ClauseSet(Op, k))
            /\ \A k \in keywords :
                  (ClauseSet(Op, k) /\ IsSome(ClauseValue(Op, k))) =>
                      /\ text[IndexOf(text, k) + 1] = "="
                      /\ text[IndexOf(text, k) + 2] = Unwrap(ClauseValue(Op, k))
            /\ (text[right + 3] = ",") <=> (\E k \in keywords : ClauseSet(Op, k))

\* an operator with a commutator and no negator was rendered
C6_Witness ==
    /\ rendered.tag = "Ok" /\ HasOperator
    /\ IsSome(Op.commutator) /\ ~IsSome(Op.negator)
    /\ Count(rendered.text, "COMMUTATOR") = 1
    /\ ~Has(rendered.text, "NEGATOR")

----------------------------------------------------------------------------
(* syn types, as far as the classifier looks into them                     *)

\* syn::PathArguments
NoArguments == [k |-> "None", args |-> <<>>]
AngleBracketed(args) == [k |-> "AngleBracketed", args |-> args]
Parenthesized == [k |-> "Parenthesized", args |-> <<>>]

\* syn::GenericArgument
GType(ty) == [k |-> "Type", ty |-> ty]
GLifetime(ident) == [k |-> "Lifetime", ident |-> ident]
GBinding(ty) == [k |-> "Binding", ident |-> "Item", ty |-> ty]

\* syn::PathSegment, syn::TypeParamBound
Segment(ident, arguments) == [ident |-> ident, arguments |-> arguments]
BoundTrait(segments) == [k |-> "Trait", segments |-> segments]
BoundLifetime == [k |-> "Lifetime", segments |-> <<>>]

\* syn::Type
TypePath(segments) == [k |-> "Path", segments |-> segments]
TypeImplTrait(bounds) == [k |-> "ImplTrait", bounds |-> bounds]
TypeTraitObject(bounds) == [k |-> "TraitObject", bounds |-> bounds]
TypeTuple(elems) == [k |-> "Tuple", elems |-> elems]
TypeReference(lifetime, elem) == [k |-> "Reference", lifetime |-> lifetime, elem |-> elem]
TypeOther(what) == [k |-> "Other", what |-> what]
\* syn::TypeMacro: the last segment of the macro path and its body
NameBody(ident, ty) == [k |-> "NameMacro", ident |-> ident, ty |-> ty]
ExprBody(expr) == [k |-> "Expr", expr |-> expr]
MalformedBody == [k |-> "Malformed"]
TypeMacro(archetype, body) == [k |-> "Macro", archetype |-> archetype, body |-> body]

\* syn::ReturnType
ReturnDefault == [k |-> "Default"]
ReturnTypeOf(ty) == [k |-> "Type", ty |-> ty]

Simple(ident) == TypePath(<<Segment(ident, NoArguments)>>)
Wrapped(wrapper, ty) == TypePath(<<Segment(wrapper, AngleBracketed(<<GType(ty)>>))>>)

\* crate::anonymonize_lifetimes: every lifetime of a path argument, a
\* reference or a tuple element becomes the anonymous lifetime
RECURSIVE anonymonize_lifetimes(_)
anonymonize_lifetimes(ty) ==
    CASE ty.k = "Path" ->
            TypePath([i \in DOMAIN ty.segments |->
                IF ty.segments[i].arguments.k = "AngleBracketed"
                THEN Segment(ty.segments[i].ident,
                        AngleBracketed([j \in DOMAIN ty.segments[i].arguments.args |->
                            LET arg == ty.segments[i].arguments.args[j]
                            IN  CASE arg.k = "Lifetime" -> GLifetime("_")
                                  [] arg.k = "Type" -> GType(anonymonize_lifetimes(arg.ty))
                                  [] arg.k = "Binding" -> GBinding(anonymonize_lifetimes(arg.ty))]))
                ELSE ty.segments[i]])
      [] ty.k = "Reference" ->
            TypeReference(IF IsSome(ty.lifetime) THEN Some("_") ELSE None,
                          anonymonize_lifetimes(ty.elem))
      [] ty.k = "Tuple" ->
            TypeTuple([i \in DOMAIN ty.elems |-> anonymonize_lifetimes(ty.elems[i])])
      [] OTHER -> ty

\* crate::anonymonize_lifetimes_in_type_path
anonymonize_lifetimes_in_type_path(path) == anonymonize_lifetimes(path)

----------------------------------------------------------------------------
(* enum Returning and the outcome of a classification                      *)

ReturningNone == [v |-> "None"]
ReturningType(ty, sql) == [v |-> "Type", ty |-> ty, sql |-> sql]
ReturningSetOf(ty, sql) == [v |-> "SetOf", ty |-> ty, sql |-> sql]
ReturningIterated(items) == [v |-> "Iterated", items |-> items]
ReturningTrigger == [v |-> "Trigger"]
ReturningIteratedItem(ty, name, sql) == [ty |-> ty, name |-> name, sql |-> sql]

Returned(returning) == [tag |-> "Ok", ret |-> returning, err |-> ""]
Failed(msg) == [tag |-> "Err", ret |-> ReturningNone, err |-> msg]
Panicked(msg) == [tag |-> "Panic", ret |-> ReturningNone, err |-> msg]

ErrUnknownReturnType == "Got unknown return type"
PanicUnimplemented == "not implemented"
PanicUnwrapNone == "called Option::unwrap() on a None value"
PanicParseBody == "Failed to parse macro body"

\* syn::parse_quote! { ::pgx::PgHeapTuple<'_, impl WhoAllocated<..>> }
PgHeapTupleType == Simple("PgHeapTuple")

----------------------------------------------------------------------------
(* impl Returning: the parse_* helpers                                      *)

\* impl Parse for NameMacro: the fields of name!(ident, ty), or the panic
\* that ends the parse
NameMacro(body) ==
    IF body.k # "NameMacro" THEN Panicked(PanicParseBody)
    ELSE IF body.ty.k = "Macro"
    THEN (IF body.ty.archetype = "composite_type"
          THEN (IF body.ty.body.k = "Expr"
                THEN Returned([ident |-> body.ident, ty |-> body.ty,
                               sql |-> Some(body.ty.body.expr)])
                ELSE Panicked(PanicParseBody))
          ELSE Panicked(PanicUnimplemented))
    ELSE Returned([ident |-> body.ident, ty |-> body.ty, sql |-> None])

\* a mutant: an element that is no macro yields no item
TupleItemDropsPlain(elem) ==
    LET e == anonymonize_lifetimes(elem)
    IN  IF e.k = "Macro"
        THEN (CASE e.archetype = "name" ->
                      LET out == NameMacro(e.body)
                      IN  IF out.tag # "Ok" THEN out
                          ELSE Returned(Some(ReturningIteratedItem(
                                    out.ret.ty, Some(out.ret.ident), out.ret.sql)))
                [] e.archetype = "composite_type" ->
                      IF e.body.k = "Expr"
                      THEN Returned(Some(ReturningIteratedItem(
                                PgHeapTupleType, None, Some(e.body.expr))))
                      ELSE Panicked(PanicParseBody)
                [] OTHER -> Panicked(PanicUnimplemented))
        ELSE Returned(None)

\* the closure given to flat_map in parse_type_tuple: Some(item) for one
\* element, or a panic
TupleItem(elem) ==
    LET e == anonymonize_lifetimes(elem)
    IN  IF e.k = "Macro"
        THEN (CASE e.archetype = "name" ->
                      LET out == NameMacro(e.body)
                      IN  IF out.tag # "Ok" THEN out
                          ELSE Returned(Some(ReturningIteratedItem(
                                    out.ret.ty, Some(out.ret.ident), out.ret.sql)))
                [] e.archetype = "composite_type" ->
                      IF e.body.k = "Expr"
                      THEN Returned(Some(ReturningIteratedItem(
                                PgHeapTupleType, None, Some(e.body.expr))))
                      ELSE Panicked(PanicParseBody)
                [] OTHER -> Panicked(PanicUnimplemented))
        ELSE Returned(Some(ReturningIteratedItem(e, None, None)))

\* fn parse_type_tuple: flat_map over the elements, in order; the first
\* panic ends it
RECURSIVE CollectItems(_, _, _)
CollectItems(elems, idx, returns) ==
    IF idx > Len(elems) THEN Returned(ReturningIterated(returns))
    ELSE LET item == TupleItem(elems[idx])
         IN  IF item.tag # "Ok" THEN item
             ELSE CollectItems(elems, idx + 1, returns \o item.ret)

parse_type_tuple(type_tuple) == CollectItems(type_tuple.elems, 1, <<>>)

\* fn parse_trait_bound
parse_trait_bound(trait_bound) ==
    LET last_path_segment == trait_bound.segments[Len(trait_bound.segments)]
        args == last_path_segment.arguments.args
        ty == args[1].ty
    IN  IF last_path_segment.ident # "Iterator" THEN Panicked(PanicUnimplemented)
        ELSE IF last_path_segment.arguments.k # "AngleBracketed"
        THEN Panicked(PanicUnimplemented)
        ELSE IF args = <<>> THEN Panicked(PanicUnwrapNone)
        ELSE IF args[1].k # "Binding" THEN Panicked(PanicUnimplemented)
        ELSE CASE ty.k = "Tuple" -> parse_type_tuple(ty)
               [] ty.k = "Path" ->
                    Returned(ReturningSetOf(anonymonize_lifetimes_in_type_path(ty), None))
               [] ty.k = "Reference" ->
                    IF ty.elem.k = "Path"
                    THEN Returned(ReturningSetOf(
                            anonymonize_lifetimes_in_type_path(ty.elem), None))
                    ELSE Panicked(PanicUnimplemented)
               [] OTHER -> Panicked(PanicUnimplemented)

\* fn parse_impl_trait
parse_impl_trait(impl_trait) ==
    IF impl_trait.bounds[1].k = "Trait" THEN parse_trait_bound(impl_trait.bounds[1])
    ELSE Returned(ReturningNone)

\* fn parse_dyn_trait
parse_dyn_trait(dyn_trait) ==
    IF dyn_trait.bounds[1].k = "Trait" THEN parse_trait_bound(dyn_trait.bounds[1])
    ELSE Returned(ReturningNone)

\* fn parse_type_macro
parse_type_macro(type_macro) ==
    IF type_macro.archetype = "composite_type"
    THEN (IF type_macro.body.k = "Expr"
          THEN Returned(ReturningType(PgHeapTupleType, Some(type_macro.body.expr)))
          ELSE Panicked(PanicParseBody))
    ELSE Panicked(PanicUnimplemented)

----------------------------------------------------------------------------
(* impl TryFrom<&syn::ReturnType> for Returning                            *)

\* a mutant: the identifier is also looked for inside the first generic
\* argument of a segment
SawIdentAlsoInside(segments, ident) ==
    \E i \in DOMAIN segments :
        \/ segments[i].ident = ident
        \/ /\ segments[i].arguments.k = "AngleBracketed"
           /\ segments[i].arguments.args # <<>>
           /\ segments[i].arguments.args[1].k = "Type"
           /\ segments[i].arguments.args[1].ty.k = "Path"
           /\ \E j \in DOMAIN segments[i].arguments.args[1].ty.segments :
                 segments[i].arguments.args[1].ty.segments[j].ident = ident

\* the saw_* flags after the loop: some segment of the path has the ident
SawIdent(segments, ident) == \E i \in DOMAIN segments : segments[i].ident = ident

\* a mutant: only an impl Trait inside the brackets is parsed
InnerImplTraitOnlyImpl(segment) ==
    IF segment.arguments.k = "AngleBracketed" /\ segment.arguments.args # <<>>
       /\ segment.arguments.args[1].k = "Type"
       /\ segment.arguments.args[1].ty.k = "ImplTrait"
    THEN Some(parse_impl_trait(segment.arguments.args[1].ty))
    ELSE None

\* match &mut segment.arguments { .. }: what one segment assigns to
\* maybe_inner_impl_trait, if anything
InnerImplTrait(segment) ==
    IF segment.arguments.k = "AngleBracketed" /\ segment.arguments.args # <<>>
       /\ segment.arguments.args[1].k = "Type"
    THEN (CASE segment.arguments.args[1].ty.k = "ImplTrait" ->
                  Some(parse_impl_trait(segment.arguments.args[1].ty))
            [] segment.arguments.args[1].ty.k = "TraitObject" ->
                  Some(parse_dyn_trait(segment.arguments.args[1].ty))
            [] OTHER -> None)
    ELSE None

\* for segment in &mut path.segments { .. }: maybe_inner_impl_trait after
\* the loop from segment idx on, or the panic of a parse inside it
RECURSIVE ScanSegments(_, _, _)
ScanSegments(segments, idx, maybe_inner_impl_trait) ==
    IF idx > Len(segments) THEN Returned(maybe_inner_impl_trait)
    ELSE LET saw_wrapper == \E j \in 1..idx : segments[j].ident \in {"Option", "Box"}
             inner == IF saw_wrapper THEN InnerImplTrait(segments[idx]) ELSE None
         IN  IF ~IsSome(inner) THEN ScanSegments(segments, idx + 1, maybe_inner_impl_trait)
             ELSE IF Unwrap(inner).tag # "Ok" THEN Unwrap(inner)
             ELSE ScanSegments(segments, idx + 1, Some(Unwrap(inner).ret))

\* let mut static_ty = typepath.clone(): the lifetimes among the generic
\* arguments of each segment become static
StaticTy(typepath) ==
    TypePath([i \in DOMAIN typepath.segments |->
        IF typepath.segments[i].arguments.k = "AngleBracketed"
        THEN Segment(typepath.segments[i].ident,
                AngleBracketed([j \in DOMAIN typepath.segments[i].arguments.args |->
                    IF typepath.segments[i].arguments.args[j].k = "Lifetime"
                    THEN GLifetime("static")
                    ELSE typepath.segments[i].arguments.args[j]]))
        ELSE typepath.segments[i]])

\* a mutant: a path through Option that holds no trait classifies as None
ClassifyPathOptionIsNone(typepath) ==
    LET segments == typepath.segments
        saw_pg_sys == SawIdent(segments, "pg_sys")
        saw_datum == SawIdent(segments, "Datum")
        scan == ScanSegments(segments, 1, None)
    IN  IF scan.tag # "Ok" THEN scan
        ELSE IF (saw_datum /\ saw_pg_sys) \/ (saw_datum /\ Len(segments) = 1)
        THEN Returned(ReturningTrigger)
        ELSE IF IsSome(scan.ret) THEN Returned(Unwrap(scan.ret))
        ELSE IF SawIdent(segments, "Option") THEN Returned(ReturningNone)
        ELSE Returned(ReturningType(StaticTy(typepath), None))

\* the syn::Type::Path arm of try_from
ClassifyPath(typepath) ==
    LET segments == typepath.segments
        saw_pg_sys == SawIdent(segments, "pg_sys")
        saw_datum == SawIdent(segments, "Datum")
        scan == ScanSegments(segments, 1, None)
    IN  IF scan.tag # "Ok" THEN scan
        ELSE IF (saw_datum /\ saw_pg_sys) \/ (saw_datum /\ Len(segments) = 1)
        THEN Returned(ReturningTrigger)
        ELSE IF IsSome(scan.ret) THEN Returned(Unwrap(scan.ret))
        ELSE Returned(ReturningType(StaticTy(typepath), None))

\* fn try_from(value: &syn::ReturnType) -> Result<Self, Self::Error>
try_from(value) ==
    IF value.k = "Default" THEN Returned(ReturningNone)
    ELSE LET ty == anonymonize_lifetimes(value.ty)
         IN  CASE ty.k = "ImplTrait" -> parse_impl_trait(ty)
               [] ty.k = "TraitObject" -> parse_dyn_trait(ty)
               [] ty.k = "Path" -> ClassifyPath(ty)
               [] ty.k = "Reference" ->
                    Returned(ReturningType(
                        TypeReference(IF IsSome(ty.lifetime) THEN Some("static") ELSE None,
                                      ty.elem), None))
               [] ty.k = "Tuple" ->
                    IF ty.elems = <<>> THEN Returned(ReturningType(ty, None))
                    ELSE parse_type_tuple(ty)
               [] ty.k = "Macro" -> parse_type_macro(ty)
               [] OTHER -> Failed(ErrUnknownReturnType)

\* Returning::try_from is called on the declared return type
Classify ==
    /\ classified = NotClassified
    /\ classified' = try_from(rty)
    /\ UNCHANGED <<entity, context, rendered, rty, other, compared, renders, trigger, call>>

----------------------------------------------------------------------------
(* Classifier family: declared return types                                *)

MaxTupleLen == 3   \* elements of a tuple type

ItemI32 == Simple("i32")
ItemString == Simple("String")
ItemDatum == Simple("Datum")
ItemBorrowed == TypePath(<<Segment("Cow", AngleBracketed(<<GLifetime("a"), GType(Simple("str"))>>))>>)
PgSysDatum == TypePath(<<Segment("pg_sys", NoArguments), Segment("Datum", NoArguments)>>)
PgxPgSysDatum ==
    TypePath(<<Segment("pgx", NoArguments), Segment("pg_sys", NoArguments),
               Segment("Datum", NoArguments)>>)
PgxDatum == TypePath(<<Segment("pgx", NoArguments), Segment("Datum", NoArguments)>>)

CompositeDog == TypeMacro("composite_type", ExprBody("Dog"))
NamedString == TypeMacro("name", NameBody("dog_name", ItemString))
NamedComposite == TypeMacro("name", NameBody("owner", CompositeDog))
OtherMacro == TypeMacro("vec", ExprBody("0"))

\* the elements a tuple type is built from
ElemPool ==
    {ItemI32, TypeReference(Some("a"), Simple("str")),
     NamedString, NamedComposite, CompositeDog, OtherMacro}

Tuples == {TypeTuple(elems) : elems \in SeqsUpTo(ElemPool, MaxTupleLen)}

SentinelPaths == {ItemDatum, PgSysDatum, PgxPgSysDatum}
ItemPaths == {ItemI32, ItemDatum, ItemBorrowed}

\* what stands after Item = in an Iterator bound
IteratorItems ==
    Tuples \cup ItemPaths
    \cup {TypeReference(None, ItemString), TypeReference(Some("a"), TypeTuple(<<ItemI32>>)),
          CompositeDog, TypeOther("Array")}

IteratorOf(item) == BoundTrait(<<Segment("Iterator", AngleBracketed(<<GBinding(item)>>))>>)

\* the bound lists of an impl Trait or dyn Trait type
BoundLists ==
    {<<IteratorOf(item)>> : item \in IteratorItems}
    \cup {<<BoundTrait(<<Segment("std", NoArguments), Segment("iter", NoArguments),
                         Segment("Iterator", AngleBracketed(<<GBinding(ItemI32)>>))>>)>>,
          <<IteratorOf(ItemI32), BoundLifetime>>,
          <<BoundLifetime, IteratorOf(ItemI32)>>,
          <<BoundTrait(<<Segment("Iterator", AngleBracketed(<<GType(ItemI32)>>))>>)>>,
          <<BoundTrait(<<Segment("Iterator", AngleBracketed(<<>>))>>)>>,
          <<BoundTrait(<<Segment("Iterator", NoArguments)>>)>>,
          <<BoundTrait(<<Segment("Fn", Parenthesized)>>)>>,
          <<BoundTrait(<<Segment("Display", NoArguments)>>)>>}

TraitTypes ==
    {TypeImplTrait(bounds) : bounds \in BoundLists}
    \cup {TypeTraitObject(bounds) : bounds \in BoundLists}

Wrappers == {"Option", "Box"}

PlainTypes ==
    SentinelPaths \cup {PgxDatum, ItemI32, ItemString, ItemBorrowed}
    \cup {TypeReference(Some("a"), Simple("str")), TypeReference(None, ItemI32),
          CompositeDog, OtherMacro, TypeMacro("composite_type", MalformedBody),
          TypeOther("Array"), TypeOther("Never"), TypeOther("BareFn")}

DeclaredTypes ==
    TraitTypes \cup Tuples \cup PlainTypes
    \cup {Wrapped(w, ty) : w \in Wrappers, ty \in TraitTypes \cup PlainTypes}
    \cup {Wrapped(w, Wrapped(w, TypeImplTrait(<<IteratorOf(item)>>))) :
            w \in Wrappers, item \in ItemPaths \cup {TypeTuple(<<ItemI32, NamedString>>)}}
    \cup {TypePath(<<Segment("std", NoArguments), Segment("option", NoArguments),
                     Segment("Option", AngleBracketed(<<GType(TypeImplTrait(
                         <<IteratorOf(ItemI32)>>))>>))>>)}

ReturnTypes == {ReturnDefault} \cup {ReturnTypeOf(ty) : ty \in DeclaredTypes}

InitClassify ==
    /\ rty \in ReturnTypes
    /\ classified = NotClassified
    /\ entity = Entity(<<>>, <<>>, None, ReturnNone, None, None, None)
    /\ context = Context0
    /\ rendered = NotRendered
    /\ IdleComparison
    /\ IdleTrigger

SpecClassify == InitClassify /\ [][Classify]_vars

----------------------------------------------------------------------------
(* C7 *)

Classified == classified.tag # "NotClassified"
DeclaredType == rty.ty

\* C7 as claimed: the sentinel type, alone or qualified by pg_sys, is
\* classified Trigger whether it stands alone or inside Option<..> or Box<..>.
C7_TriggerAlsoWrapped ==
    (Classified /\ rty.k = "Type") =>
        /\ DeclaredType \in SentinelPaths => classified = Returned(ReturningTrigger)
        /\ \A w \in Wrappers, p \in SentinelPaths :
              DeclaredType = Wrapped(w, p) => classified = Returned(ReturningTrigger)

\* C7, amended: the sentinel type, alone or qualified by pg_sys, is
\* classified Trigger when it stands alone; inside Option<..> or Box<..> it
\* is classified Type, holding the wrapper type as declared.
C7_TriggerStandAloneOnly ==
    (Classified /\ rty.k = "Type") =>
        /\ DeclaredType \in SentinelPaths => classified = Returned(ReturningTrigger)
        /\ \A w \in Wrappers, p \in SentinelPaths :
              DeclaredType = Wrapped(w, p) =>
                  classified = Returned(ReturningType(DeclaredType, None))

\* Option<pg_sys::Datum> was classified, and not as Trigger
C7_Witness ==
    /\ Classified
    /\ rty = ReturnTypeOf(Wrapped("Option", PgSysDatum))
    /\ classified.tag = "Ok" /\ classified.ret.v = "Type"

----------------------------------------------------------------------------
(* C8 *)

LastSegment(segments) == segments[Len(segments)]

\* the first bound of an impl/dyn type is a trait other than Iterator
NotIteratorBound(bound) ==
    bound.k = "Trait" /\ LastSegment(bound.segments).ident # "Iterator"

\* the first bound is Iterator<Item = X> with X no tuple, no path and no
\* reference to a path
IteratorOfUnsupportedItem(bound) ==
    /\ bound.k = "Trait" /\ LastSegment(bound.segments).ident = "Iterator"
    /\ LastSegment(bound.segments).arguments.k = "AngleBracketed"
    /\ LastSegment(bound.segments).arguments.args # <<>>
    /\ LastSegment(bound.segments).arguments.args[1].k = "Binding"
    /\ LET item == LastSegment(bound.segments).arguments.args[1].ty
       IN  /\ item.k \notin {"Tuple", "Path"}
           /\ ~(item.k = "Reference" /\ item.elem.k = "Path")

\* the return-type descriptions the claim lists as unmappable
Unsupported(ty) ==
    \/ /\ ty.k \in {"ImplTrait", "TraitObject"}
       /\ \/ ty.bounds[1].k # "Trait"
          \/ NotIteratorBound(ty.bounds[1])
          \/ IteratorOfUnsupportedItem(ty.bounds[1])
    \/ ty.k = "Macro" /\ ty.archetype \notin {"composite_type", "name"}
    \/ ty.k = "Other"

\* C8: a return type the classifier cannot map fails with the
\* UnknownReturnShape error value: no defaulted variant, no abort.
C8_UnsupportedFails ==
    (Classified /\ rty.k = "Type" /\ Unsupported(DeclaredType)) =>
        classified.tag = "Err" /\ classified.err = ErrUnknownReturnType

----------------------------------------------------------------------------
(* C9 *)

IsNamed(elem) == elem.k = "Macro" /\ elem.archetype = "name"

\* the element is no macro, a composite_type!(expr) or a name!(x, T) with T
\* no macro or a composite_type!(expr)
SupportedElem(elem) ==
    elem.k = "Macro" =>
        \/ elem.archetype = "composite_type" /\ elem.body.k = "Expr"
        \/ /\ elem.archetype = "name" /\ elem.body.k = "NameMacro"
           /\ elem.body.ty.k = "Macro" =>
                 (elem.body.ty.archetype = "composite_type" /\ elem.body.ty.body.k = "Expr")

SupportedTuple(ty) ==
    ty.k = "Tuple" /\ \A i \in DOMAIN ty.elems : SupportedElem(ty.elems[i])

\* the type a column holds for its element: T of name!(x, T), the row
\* handle for composite_type!(..), the element itself otherwise (a
\* reference with its lifetime made anonymous)
ColumnType(elem) ==
    CASE IsNamed(elem) -> elem.body.ty
      [] elem.k = "Macro" -> PgHeapTupleType
      [] elem.k = "Reference" ->
            TypeReference(IF IsSome(elem.lifetime) THEN Some("_") ELSE None, elem.elem)
      [] OTHER -> elem

----------------------------------------------------------------------------
(* C10 *)

\* bounds is the single bound Iterator<Item = X>
IsIteratorOnly(bounds) ==
    /\ Len(bounds) = 1 /\ bounds[1].k = "Trait"
    /\ Len(bounds[1].segments) = 1
    /\ bounds[1].segments[1].ident = "Iterator"
    /\ bounds[1].segments[1].arguments.k = "AngleBracketed"
    /\ Len(bounds[1].segments[1].arguments.args) = 1
    /\ bounds[1].segments[1].arguments.args[1].k = "Binding"

ItemOf(bounds) == bounds[1].segments[1].arguments.args[1].ty

\* ty is wrapper<inner>, a path of one segment with one type argument
IsWrapped(ty, wrapper) ==
    /\ ty.k = "Path" /\ Len(ty.segments) = 1
    /\ ty.segments[1].ident = wrapper
    /\ ty.segments[1].arguments.k = "AngleBracketed"
    /\ Len(ty.segments[1].arguments.args) = 1
    /\ ty.segments[1].arguments.args[1].k = "Type"

Inner(ty) == ty.segments[1].arguments.args[1].ty

\* ty is impl Iterator<Item = X> or dyn Iterator<Item = X>
IsBareIterator(ty) == ty.k \in {"ImplTrait", "TraitObject"} /\ IsIteratorOnly(ty.bounds)

\* ty is one of the four forms of the claim, over a tuple or a path X
IsIteratorForm(ty) ==
    /\ \/ IsBareIterator(ty)
       \/ IsWrapped(ty, "Option") /\ Inner(ty).k = "ImplTrait" /\ IsIteratorOnly(Inner(ty).bounds)
       \/ IsWrapped(ty, "Box") /\ Inner(ty).k = "TraitObject" /\ IsIteratorOnly(Inner(ty).bounds)
    /\ ItemOf(IF IsBareIterator(ty) THEN ty.bounds ELSE Inner(ty).bounds).k \in {"Tuple", "Path"}

FormItem(ty) == ItemOf(IF IsBareIterator(ty) THEN ty.bounds ELSE Inner(ty).bounds)

\* ty wraps one of the wrapped forms once more
IsTwiceWrapped(ty) ==
    \E w \in Wrappers :
        /\ IsWrapped(ty, w) /\ IsWrapped(Inner(ty), w)
        /\ Inner(Inner(ty)).k \in {"ImplTrait", "TraitObject"}
        /\ IsIteratorOnly(Inner(Inner(ty)).bounds)

----------------------------------------------------------------------------
(* C11 *)

IsCompositeMacro(ty) ==
    ty.k = "Macro" /\ ty.archetype = "composite_type" /\ ty.body.k = "Expr"

\* impl Iterator<Item = composite_type!(..)> or dyn Iterator<Item = ..>
IsIteratorOfComposite(ty) ==
    /\ ty.k \in {"ImplTrait", "TraitObject"}
    /\ Len(ty.bounds) = 1 /\ ty.bounds[1].k = "Trait"
    /\ Len(ty.bounds[1].segments) = 1
    /\ ty.bounds[1].segments[1].ident = "Iterator"
    /\ ty.bounds[1].segments[1].arguments.k = "AngleBracketed"
    /\ Len(ty.bounds[1].segments[1].arguments.args) = 1
    /\ ty.bounds[1].segments[1].arguments.args[1].k = "Binding"
    /\ IsCompositeMacro(ty.bounds[1].segments[1].arguments.args[1].ty)

\* a tuple whose elements are all plain types or composite_type!(name)
IsTupleWithComposite(ty) ==
    /\ ty.k = "Tuple" /\ ty.elems # <<>>
    /\ \A i \in DOMAIN ty.elems : ty.elems[i].k # "Macro" \/ IsCompositeMacro(ty.elems[i])
    /\ \E i \in DOMAIN ty.elems : IsCompositeMacro(ty.elems[i])

\* C11: composite_type!(name) is recognized in every return position: as the
\* whole return type it gives Type with the composite name, as the item of an
\* Iterator it gives SetOf with the composite name, and as a tuple element it
\* gives an Iterated column with the row-handle type, no name and the
\* composite name.
C11_CompositeEverywhere ==
    (Classified /\ rty.k = "Type") =>
        /\ IsCompositeMacro(DeclaredType) =>
              classified = Returned(ReturningType(PgHeapTupleType,
                                                  Some(DeclaredType.body.expr)))
        /\ IsIteratorOfComposite(DeclaredType) =>
              /\ classified.tag = "Ok"
              /\ classified.ret.v = "SetOf"
              /\ classified.ret.sql =
                    Some(DeclaredType.bounds[1].segments[1].arguments.args[1].ty.body.expr)
        /\ IsTupleWithComposite(DeclaredType) =>
              /\ classified.tag = "Ok"
              /\ classified.ret.v = "Iterated"
              /\ Len(classified.ret.items) = Len(DeclaredType.elems)
              /\ \A i \in DOMAIN DeclaredType.elems :
                    IsCompositeMacro(DeclaredType.elems[i]) =>
                        classified.ret.items[i] =
                            ReturningIteratedItem(PgHeapTupleType, None,
                                                  Some(DeclaredType.elems[i].body.expr))

----------------------------------------------------------------------------
(* Lookup family: graphs in which more than one neighbour may match        *)

MaxNeighbors == 3  \* neighbours of the function in the graph

\* a type, an enum and a built-in that answer to the same reference, each in
\* its own schema, and two bystanders
LookupNodes ==
    {[kind |-> "Type", id |-> "Custom", name |-> "Custom", prefix |-> "types."],
     [kind |-> "Enum", id |-> "Custom", name |-> "Custom", prefix |-> "enums."],
     [kind |-> "BuiltinType", id |-> "", name |-> "Custom", prefix |-> ""],
     [kind |-> "BuiltinType", id |-> "", name |-> "String", prefix |-> ""],
     [kind |-> "Function", id |-> "helper", name |-> "helper", prefix |-> ""]}

LookupContexts ==
    {[neighbors |-> ns, internal_type |-> "Internal",
      module_pathname |-> "MODULE_PATHNAME", self_prefix |-> ""] :
        ns \in DistinctSeqsUpTo(LookupNodes, MaxNeighbors)}

LookupEntities ==
    {Entity(kinds, <<>>, ret[1], ret[2], None, None, None) :
        kinds \in {<<>>, <<KCustom>>, <<KOptional>>},
        ret \in {<<None, ReturnNone>>,
                 <<Some(Retval("Custom", Plain(Mapped("Custom")))), ReturnType(None)>>,
                 <<Some(Retval("String", Plain(Mapped("text")))), ReturnType(None)>>}}

InitLookup ==
    /\ entity \in LookupEntities
    /\ context \in LookupContexts
    /\ rendered = NotRendered
    /\ rty = NoReturnType
    /\ classified = NotClassified
    /\ IdleComparison
    /\ IdleTrigger

SpecLookup == InitLookup /\ [][Render]_vars

----------------------------------------------------------------------------
(* C12 *)

MatchesOfKind(kind, type_id, type_name) ==
    {i \in DOMAIN context.neighbors :
        /\ context.neighbors[i].kind = kind
        /\ NodeMatches(context.neighbors[i], type_id, type_name)}

\* the node the fixed priority selects: a Type matching by identity, else
\* an Enum matching by identity, else a BuiltinType matching by name
PriorityNode(type_id, type_name) ==
    LET types == MatchesOfKind("Type", type_id, type_name)
        enums == MatchesOfKind("Enum", type_id, type_name)
        builtins == MatchesOfKind("BuiltinType", type_id, type_name)
    IN  context.neighbors[IF types # {} THEN Min(types)
                          ELSE IF enums # {} THEN Min(enums)
                          ELSE Min(builtins)]

\* C12: the node an argument or a return value resolves to, and so the
\* schema prefix rendered for it, is chosen by priority (Type by identity,
\* then Enum by identity, then BuiltinType by name) and not by the order of
\* the neighbours in the graph.
C12_LookupByPriority ==
    rendered.tag = "Ok" =>
        /\ Args # <<>> =>
              TypeInArgumentList(rendered.text, entity.fn_args[1].pattern)[1]
                 = schema_prefix_for(PriorityNode(Args[1].type_id, Args[1].type_name))
        /\ IsSome(entity.metadata.retval) =>
              rendered.text[IndexOf(rendered.text, "RETURNS") + 1]
                 = schema_prefix_for(PriorityNode(Retval0.type_id, Retval0.type_name))

----------------------------------------------------------------------------
(* C13 *)

\* some neighbour of the function matches the reference
Resolves(ref) ==
    \E i \in DOMAIN context.neighbors :
        NodeMatches(context.neighbors[i], ref.type_id, ref.type_name)

UnresolvedArgs == {i \in DOMAIN Args : ~Resolves(Args[i])}
AnyUnresolved ==
    \/ UnresolvedArgs # {}
    \/ IsSome(entity.metadata.retval) /\ ~Resolves(Retval0)

\* argument i passes its turn of the argument loop once it is resolved
ArgMaps(i) ==
    /\ Args[i].argument_sql.r = "Ok"
    /\ Args[i].argument_sql.v = "Composite" => IsSome(entity.fn_args[i].composite_type)

\* the first reference to_sql looks up and does not find is reached: no
\* argument before it fails for another reason
UnresolvedIsFirstFailure ==
    IF UnresolvedArgs # {}
    THEN \A j \in 1..(Min(UnresolvedArgs) - 1) : ArgMaps(j)
    ELSE \A j \in DOMAIN Args : ArgMaps(j)

NoStatementText ==
    /\ rendered.text = <<>>
    /\ ~Has(rendered.text, "CREATE FUNCTION")
    /\ ~Has(rendered.text, "CREATE OPERATOR")

\* C13 as claimed: any unresolved argument or return reference makes to_sql
\* return an UnresolvedTypeReference error, and a failed render carries no
\* statement text.
C13_UnresolvedAlwaysReported ==
    rendered.tag # "NotRendered" =>
        /\ AnyUnresolved => Fails(UnresolvedTypeReference)
        /\ rendered.tag # "Ok" => NoStatementText

\* C13: any unresolved argument or return reference makes to_sql return an
\* error; it is an UnresolvedTypeReference error when no earlier argument
\* fails for another reason (the first failure is the one returned); and a
\* failed render carries no statement text, also when it fails in the
\* operator part.
C13_UnresolvedFails ==
    rendered.tag # "NotRendered" =>
        /\ AnyUnresolved => rendered.tag = "Err"
        /\ (AnyUnresolved /\ UnresolvedIsFirstFailure) => Fails(UnresolvedTypeReference)
        /\ rendered.tag # "Ok" => NoStatementText

\* an operator function whose second argument is the first reference that
\* does not resolve was rendered
C13_Witness ==
    /\ rendered.tag = "Err" /\ HasOperator
    /\ Len(Args) >= 2 /\ UnresolvedArgs # {} /\ Min(UnresolvedArgs) = 2
    /\ ArgMaps(1)
    /\ rendered.err = ErrArgNotInGraph

----------------------------------------------------------------------------
(* C14 *)

\* the realized return value is a resolved Plain or SetOf whose SQL variant
\* is Skip, and the argument list renders
SkippedReturn ==
    /\ IsSome(entity.metadata.retval)
    /\ Resolves(Retval0)
    /\ Retval0.return_sql.r = "Ok"
    /\ Retval0.return_sql.rv \in {"Plain", "SetOf"}
    /\ Retval0.return_sql.variant.v = "Skip"
    /\ RenderArguments(entity, context).ok

\* C14: a realized return value whose SQL variant is Skip makes to_sql
\* return an error value, for Plain as for SetOf; no return clause is
\* rendered and the render does not abort.
C14_SkippedReturnIsError ==
    (rendered.tag # "NotRendered" /\ SkippedReturn) =>
        /\ rendered.tag = "Err"
        /\ rendered.text = <<>>

----------------------------------------------------------------------------
(* C15 *)

\* the token that follows RETURNS in the rendered function
AfterReturns(text) == text[IndexOf(text, "RETURNS") + 1]

\* the placeholder type PostgreSQL has for the result of a trigger function
TriggerPlaceholder == "trigger"

\* C15: the return clause follows the declared return shape: RETURNS void
\* exactly for None, RETURNS <type> for Type, RETURNS SETOF <type> for
\* SetOf, and the trigger placeholder type for Trigger.
C15_ClauseByDeclaredShape ==
    rendered.tag = "Ok" =>
        /\ (AfterReturns(rendered.text) = "void") <=> (entity.fn_return.v = "None")
        /\ entity.fn_return.v = "Type" =>
              AfterReturns(rendered.text) \notin {"void", "SETOF", "TABLE"}
        /\ entity.fn_return.v = "SetOf" => AfterReturns(rendered.text) = "SETOF"
        /\ entity.fn_return.v = "Trigger" =>
              Has(rendered.text, TriggerPlaceholder)

----------------------------------------------------------------------------
(* C16 *)

\* the tokens between the parentheses of CREATE FUNCTION
ArgumentList(text) ==
    SubSeq(text, IndexOf(text, "(") + 1, IndexOf(text, ")") - 1)

\* the positions of the arguments that are emitted, in declaration order
Emitted == SelectSeq([i \in DOMAIN Args |-> i], LAMBDA i : Args[i].argument_sql.v # "Skip")

\* the SQL type of an emitted argument: the mapped name or the composite name
ArgSqlType(i) ==
    IF Args[i].argument_sql.v = "Mapped" THEN Args[i].argument_sql.sql
    ELSE CompositeSql(Unwrap(entity.fn_args[i].composite_type), Args[i].argument_sql.brackets)

\* "name" [VARIADIC] <schema-prefix><sql-type>[ DEFAULT <literal>], a comma
\* after every emitted argument but the last emitted one
ExpectedArgumentList ==
    Flatten([n \in DOMAIN Emitted |->
        LET i == Emitted[n]
        IN  ArgBuf(entity.fn_args[i].pattern, Args[i].variadic,
                   schema_prefix_for(Unwrap(FindNeighbor(context, Args[i].type_id,
                                                         Args[i].type_name))),
                   ArgSqlType(i), entity.fn_args[i].default,
                   n < Len(Emitted), Args[i].type_name)])

\* C16: the argument list holds the emitted arguments in declaration order,
\* each as "name" [VARIADIC] <prefix><type>[ DEFAULT <literal>], with a
\* comma between consecutive emitted arguments and none after the last
\* emitted one, also when the trailing arguments are skipped.
C16_ArgumentListForm ==
    rendered.tag = "Ok" => ArgumentList(rendered.text) = ExpectedArgumentList

----------------------------------------------------------------------------
(* impl Hash, PartialEq, Eq, Ord, PartialOrd for PgExternEntity            *)

\* the signature keys of the comparison family, in ascending order of the
\* derived Ord of FunctionMetadataEntity (arguments first, then retval)
CompareKinds == << <<>>, <<KOptional>>, <<KPlain>>, <<KPlain, KPlain>> >>
CompareRetvals == <<None, Some(Retval("String", Plain(Mapped("text"))))>>

MetadataOf(kinds, retval) ==
    [arguments |-> [i \in DOMAIN kinds |-> MetadataArgument(kinds[i])], retval |-> retval]

\* the position of a signature key in that order
MetadataRank(metadata) ==
    CHOOSE r \in 1..(Len(CompareKinds) * Len(CompareRetvals)) :
        \E i \in DOMAIN CompareKinds, j \in DOMAIN CompareRetvals :
            /\ metadata = MetadataOf(CompareKinds[i], CompareRetvals[j])
            /\ r = (i - 1) * Len(CompareRetvals) + j

HashBuckets == 3   \* values a hash is folded to

\* derived on FunctionMetadataEntity: field-wise equality, lexicographic
\* order, and a hash fed by every field
metadata_eq(a, b) == a = b
metadata_cmp(a, b) ==
    IF MetadataRank(a) < MetadataRank(b) THEN "Less"
    ELSE IF MetadataRank(a) > MetadataRank(b) THEN "Greater"
    ELSE "Equal"
metadata_hash(a) == MetadataRank(a) % HashBuckets

\* a mutant: the name takes part in equality
eqAlsoByName(a, b) == metadata_eq(a.metadata, b.metadata) /\ a.name = b.name

\* fn hash: self.metadata.hash(state)
hash(a) == metadata_hash(a.metadata)
\* fn eq: self.metadata.eq(&other.metadata)
eq(a, b) == metadata_eq(a.metadata, b.metadata)
\* fn cmp: self.metadata.cmp(&other.metadata)
cmp(a, b) == metadata_cmp(a.metadata, b.metadata)
\* fn partial_cmp: Some(self.cmp(other))
partial_cmp(a, b) == Some(cmp(a, b))

\* entity and other are compared and hashed
Compare ==
    /\ compared = NotCompared
    /\ other # NoOther
    /\ compared' = [tag |-> "Compared",
                    eq |-> eq(entity, other),
                    cmp |-> cmp(entity, other),
                    partial_cmp |-> partial_cmp(entity, other),
                    hashes |-> <<hash(entity), hash(other)>>]
    /\ UNCHANGED <<entity, context, rendered, rty, classified, other, renders, trigger, call>>

----------------------------------------------------------------------------
(* Comparison family: pairs of entities                                    *)

\* what an entity has besides its signature key: one base and one variant
\* per field that differs from it
CompareDress ==
    {[name |-> "my_fn", schema |-> None, attrs |-> <<>>, line |-> "42", operator |-> None],
     [name |-> "other_fn", schema |-> None, attrs |-> <<>>, line |-> "42", operator |-> None],
     [name |-> "my_fn", schema |-> Some("my_schema"), attrs |-> <<>>, line |-> "42",
      operator |-> None],
     [name |-> "my_fn", schema |-> None, attrs |-> <<Strict>>, line |-> "42", operator |-> None],
     [name |-> "my_fn", schema |-> None, attrs |-> <<>>, line |-> "7", operator |-> None],
     [name |-> "my_fn", schema |-> None, attrs |-> <<>>, line |-> "42",
      operator |-> Some(Operator(Some("==="), None, None, None, None, FALSE, FALSE))]}

Dressed(kinds, retval, d) ==
    [Entity(kinds, d.attrs, retval,
            IF IsSome(retval) THEN ReturnType(None) ELSE ReturnNone,
            d.operator, d.schema, None)
        EXCEPT !.name = d.name, !.line = d.line]

CompareEntities ==
    {Dressed(CompareKinds[i], CompareRetvals[j], d) :
        i \in DOMAIN CompareKinds, j \in DOMAIN CompareRetvals, d \in CompareDress}

InitCompare ==
    /\ entity \in CompareEntities
    /\ other \in CompareEntities
    /\ context = Context0
    /\ rendered = NotRendered
    /\ rty = NoReturnType
    /\ classified = NotClassified
    /\ compared = NotCompared
    /\ renders = <<>>
    /\ IdleTrigger

SpecCompare == InitCompare /\ [][Compare]_vars

----------------------------------------------------------------------------
(* C17 *)

\* the entity with everything but its signature key reset
Bare(a) ==
    [a EXCEPT !.name = "my_fn", !.schema = None, !.extern_attrs = <<>>,
              !.line = "42", !.operator = None]

\* C17: ==, cmp and hash of PgExternEntity go by the signature key alone:
\* a == b iff the keys are equal iff cmp is Equal, equal entities hash
\* alike, and name, schema, attributes, line and operator change neither
\* equality nor order.
C17_BySignatureKeyAlone ==
    compared.tag = "Compared" =>
        /\ compared.eq <=> (entity.metadata = other.metadata)
        /\ compared.eq <=> (compared.cmp = "Equal")
        /\ compared.partial_cmp = Some(compared.cmp)
        /\ compared.eq => compared.hashes[1] = compared.hashes[2]
        /\ compared.eq = eq(Bare(entity), Bare(other))
        /\ compared.cmp = cmp(Bare(entity), Bare(other))

\* two entities with the same key and different names were compared
C17_Witness ==
    /\ compared.tag = "Compared"
    /\ entity.metadata = other.metadata
    /\ entity.name # other.name
    /\ compared.eq /\ compared.cmp = "Equal"

----------------------------------------------------------------------------
(* Repeated rendering: to_sql called again and again on a frozen graph     *)

MaxRenders == 3    \* calls of to_sql in one run

\* a mutant: the strict upgrade is pushed onto the attributes of self
SelfAfterPushingStrict(e, ctx) == [e EXCEPT !.extern_attrs = UpgradedAttrs(e, ctx)]

\* self after to_sql(&self, ..): the attribute list is cloned before Strict
\* is pushed, so self is what it was
SelfAfter(e, ctx) == e

\* to_sql is called on entity or on other; the call and its result are logged
RenderOne(which) ==
    /\ Len(renders) < MaxRenders
    /\ renders' = Append(renders,
                         [of |-> which,
                          result |-> to_sql(IF which = "entity" THEN entity ELSE other,
                                            context)])
    /\ entity' = (IF which = "entity" THEN SelfAfter(entity, context) ELSE entity)
    /\ other' = (IF which = "other" THEN SelfAfter(other, context) ELSE other)
    /\ UNCHANGED <<context, rendered, rty, classified, compared, trigger, call>>

RenderAny == \E which \in {"entity", "other"} : RenderOne(which)

RerenderEntities ==
    {Entity(kinds, attrs, None, ReturnNone, None, None, None) :
        kinds \in {<<>>, <<KPlain>>, <<KOptional>>, <<KMissing>>, <<KPlain, KSkip>>},
        attrs \in {<<>>, <<Immutable>>, <<Strict>>}}

InitRerender ==
    /\ entity \in RerenderEntities
    /\ other \in RerenderEntities
    /\ context = Context0
    /\ rendered = NotRendered
    /\ rty = NoReturnType
    /\ classified = NotClassified
    /\ compared = NotCompared
    /\ renders = <<>>
    /\ IdleTrigger

SpecRerender == InitRerender /\ [][RenderAny]_vars

----------------------------------------------------------------------------
(* C18 *)

\* every call on the same entity returned the same result
SameResultEachTime ==
    \A i, j \in DOMAIN renders :
        renders[i].of = renders[j].of => renders[i].result = renders[j].result

----------------------------------------------------------------------------
(* C19 *)

\* the tokens of the attribute line: what stands between the return clause
\* and SET search_path or LANGUAGE
AttrLine(text) ==
    LET r == IndexOf(text, "RETURNS")
        from == IF text[r + 1] = "void" THEN r + 2 ELSE r + 4
        to == Min({i \in DOMAIN text : text[i] \in {"SET search_path TO", "LANGUAGE c"}})
    IN  SubSeq(text, from, to - 1)

DeclaredAttrLine == [i \in DOMAIN entity.extern_attrs |-> AttrDisplay(entity.extern_attrs[i])]

\* C19: the rendered attribute line is the declared attributes, each in its
\* declared place, followed by at most one STRICT that the renderer added;
\* strict inference drops and reorders nothing.
C19_StrictIsAdditive ==
    rendered.tag = "Ok" =>
        \/ AttrLine(rendered.text) = DeclaredAttrLine
        \/ AttrLine(rendered.text) = DeclaredAttrLine \o <<"STRICT">>

\* a function that declares attributes, Strict not among them, was rendered
\* with STRICT after them
C19_Witness ==
    /\ rendered.tag = "Ok"
    /\ Len(entity.extern_attrs) = 2 /\ ~DeclaresStrict
    /\ AttrLine(rendered.text) = DeclaredAttrLine \o <<"STRICT">>

----------------------------------------------------------------------------
(* From the declared return type to the rendered function                  *)

\* impl ToTokens for Returning: the PgExternReturnEntity the macro expands
\* to.  Type and SetOf emit TypeEntity::CompositeType { sql } when sql is
\* Some; every Iterated item emits TypeEntity::Type with its type and name,
\* which has no composite name
to_tokens(returning) ==
    CASE returning.v = "None" -> ReturnNone
      [] returning.v = "Type" -> ReturnType(returning.sql)
      [] returning.v = "SetOf" -> ReturnSetOf(returning.sql)
      [] returning.v = "Iterated" ->
            ReturnIterated([i \in DOMAIN returning.items |->
                               [ty |-> returning.items[i].ty,
                                name |-> returning.items[i].name,
                                composite_type |-> None]])
      [] returning.v = "Trigger" -> ReturnTrigger

\* the built-in mapping of the type registry
BuiltinSql(ident) ==
    CASE ident = "i32" -> "integer"
      [] ident = "String" -> "text"
      [] ident = "bool" -> "bool"

\* the type a declared type maps as: T for T and for Option<T>
MappedAs(ty) ==
    IF ty.segments[1].ident = "Option"
    THEN ty.segments[1].arguments.args[1].ty.segments[1].ident
    ELSE ty.segments[1].ident

\* the realized return value the registry gives for a declared type
RealizedRetval(ty) == Retval(MappedAs(ty), Plain(Mapped(BuiltinSql(MappedAs(ty)))))

Unassembled == NoOther

\* macro expansion: the entity of a function with the classified return
\* shape and the realized return value of its declared type
Assemble ==
    /\ classified.tag = "Ok"
    /\ entity = Unassembled
    /\ \E kinds \in SeqsUpTo({KPlain, KOptional}, MaxArgs), schema \in {None, Some("my_schema")} :
          entity' = Entity(kinds, <<>>, Some(RealizedRetval(rty.ty)),
                           to_tokens(classified.ret), None, schema, None)
    /\ UNCHANGED <<context, rendered, rty, classified, other, compared, renders, trigger, call>>

\* to_sql is called once the entity exists
RenderAssembled == entity # Unassembled /\ Render

RoundTripTypes ==
    {Simple(t) : t \in {"i32", "String", "bool"}}
    \cup {Wrapped("Option", Simple(t)) : t \in {"i32", "String", "bool"}}

InitRoundTrip ==
    /\ rty \in {ReturnTypeOf(ty) : ty \in RoundTripTypes}
    /\ classified = NotClassified
    /\ entity = Unassembled
    /\ context = Context0
    /\ rendered = NotRendered
    /\ IdleComparison
    /\ IdleTrigger

SpecRoundTrip == InitRoundTrip /\ [][Classify \/ Assemble \/ RenderAssembled]_vars

----------------------------------------------------------------------------
(* C20 *)

\* C20: a return type T with a built-in mapping and Option<T> both classify
\* as Type and both render RETURNS <mapped name of T>: wrapping in Option
\* does not change the SQL type of the return clause.
C20_OptionSameReturnType ==
    rendered.tag # "NotRendered" =>
        /\ classified.tag = "Ok" /\ classified.ret.v = "Type"
        /\ entity.fn_return.v = "Type"
        /\ rendered.tag = "Ok"
        /\ TypeAfter(rendered.text, "RETURNS") = <<"", BuiltinSql(MappedAs(DeclaredType))>>

\* a function declared to return Option<i32> was rendered RETURNS integer
C20_Witness ==
    /\ rendered.tag = "Ok"
    /\ DeclaredType = Wrapped("Option", Simple("i32"))
    /\ classified.ret.v = "Type"
    /\ TypeAfter(rendered.text, "RETURNS") = <<"", "integer">>

----------------------------------------------------------------------------
(* Block family: functions with and without operator metadata, with and    *)
(* without requirements                                                    *)

BlockAttrPool == {Strict, Requires(<<"other_ext">>), Requires(<<"a_fn", "b_fn">>)}
BlockArgPool == {KPlain, KDog, KCats}
BlockOperators ==
    {None, Some(Operator(Some("==="), None, None, None, None, FALSE, FALSE)),
     Some(Operator(Some("==="), Some("<=>"), None, None, None, TRUE, FALSE))}

BlockEntities ==
    {Entity(kinds, attrs, Some(Retval("bool", Plain(Mapped("bool")))), ReturnType(None),
            operator, None, None) :
        kinds \in SeqsUpTo(BlockArgPool, MaxArgs),
        attrs \in DistinctSeqsUpTo(BlockAttrPool, MaxAttrs),
        operator \in BlockOperators}

InitBlocks ==
    /\ entity \in BlockEntities
    /\ context \in Contexts
    /\ rendered = NotRendered
    /\ rty = NoReturnType
    /\ classified = NotClassified
    /\ IdleComparison
    /\ IdleTrigger

SpecBlocks == InitBlocks /\ [][Render]_vars

----------------------------------------------------------------------------
(* C21: comment headers and the number and order of blocks                 *)

StatementKeywords == {"CREATE FUNCTION", "CREATE OPERATOR"}

\* the positions of the output where a statement starts
Statements(text) == {p \in DOMAIN text : text[p] \in StatementKeywords}

\* the lines of a requirements comment
RequiresLines ==
    {"-- requires:"} \cup
    {"--   " \o r : r \in {"other_ext", "a_fn", "b_fn"}}

\* the statement at p has the two header lines before it, with nothing but
\* the requirements comment in between
HeaderBefore(text, p) ==
    \E h \in 1..(p - 2) :
        /\ text[h] = "-- " \o entity.file \o ":" \o entity.line
        /\ text[h + 1] = "-- " \o entity.module_path \o "::" \o entity.name
        /\ \A k \in (h + 2)..(p - 1) : text[k] \in RequiresLines

\* the two header lines, counted as pairs
HeaderCount(text) ==
    Cardinality({h \in DOMAIN text :
                    /\ h + 1 \in DOMAIN text
                    /\ text[h] = "-- " \o entity.file \o ":" \o entity.line
                    /\ text[h + 1] = "-- " \o entity.module_path \o "::" \o entity.name})

\* C21: in the output of a successful to_sql every statement has the comment
\* header -- file:line, -- module_path::name before it; with operator
\* metadata the output is the CREATE FUNCTION block and then the CREATE
\* OPERATOR block, without it the output is the CREATE FUNCTION block alone.
C21_BlocksAndHeaders ==
    rendered.tag = "Ok" =>
        /\ \A p \in Statements(rendered.text) : HeaderBefore(rendered.text, p)
        /\ HeaderCount(rendered.text) = Cardinality(Statements(rendered.text))
        /\ Filter(rendered.text, StatementKeywords) =
               IF IsSome(entity.operator)
               THEN <<"CREATE FUNCTION", "CREATE OPERATOR">>
               ELSE <<"CREATE FUNCTION">>

\* a function with requirements and operator metadata was rendered
C21_Witness ==
    /\ rendered.tag = "Ok"
    /\ IsSome(entity.operator)
    /\ \E i \in DOMAIN entity.extern_attrs : entity.extern_attrs[i].a = "Requires"
    /\ Cardinality(Statements(rendered.text)) = 2

----------------------------------------------------------------------------
(* C22 *)

\* the arguments whose realized SQL variant is Composite
CompositeArgs ==
    {i \in DOMAIN Args : Args[i].argument_sql.r = "Ok" /\ Args[i].argument_sql.v = "Composite"}

\* the declaration of argument i carries a composite name
Named(i) == IsSome(entity.fn_args[i].composite_type)

\* the declared composite name of argument i, with [] iff brackets are required
NamedSql(i) ==
    IF Args[i].argument_sql.brackets
    THEN Unwrap(entity.fn_args[i].composite_type) \o "[]"
    ELSE Unwrap(entity.fn_args[i].composite_type)

\* the realized return is a Plain or SetOf Composite and the declared shape
\* is the matching Type or SetOf
CompositeReturn ==
    /\ IsSome(entity.metadata.retval)
    /\ Unwrap(entity.metadata.retval).return_sql.r = "Ok"
    /\ Unwrap(entity.metadata.retval).return_sql.rv \in {"Plain", "SetOf"}
    /\ Unwrap(entity.metadata.retval).return_sql.variant.v = "Composite"
    /\ entity.fn_return.v =
         (IF Unwrap(entity.metadata.retval).return_sql.rv = "Plain" THEN "Type" ELSE "SetOf")

\* C22: a Composite position whose declaration carries no composite name
\* makes to_sql fail, with MissingCompositeName and only for that reason;
\* a rendered Composite position shows exactly its own declared name, with
\* [] iff array brackets are required: in the argument list, as LEFTARG for
\* argument 0 and as RIGHTARG for argument 1, and after RETURNS.
C22_CompositeNames ==
    rendered.tag # "NotRendered" =>
        /\ (\E i \in CompositeArgs : ~Named(i)) => rendered.tag # "Ok"
        /\ (CompositeReturn /\ ~IsSome(entity.fn_return.composite_type))
               => rendered.tag # "Ok"
        /\ Fails(MissingCompositeName) =>
               \/ \E i \in CompositeArgs : ~Named(i)
               \/ CompositeReturn /\ ~IsSome(entity.fn_return.composite_type)
        /\ rendered.tag = "Ok" =>
               /\ \A i \in CompositeArgs :
                      TypeInArgumentList(rendered.text, entity.fn_args[i].pattern)[2]
                          = NamedSql(i)
               /\ (HasOperator /\ 1 \in CompositeArgs) =>
                      TypeAfter(rendered.text, "LEFTARG=")[2] = NamedSql(1)
               /\ (HasOperator /\ 2 \in CompositeArgs) =>
                      TypeAfter(rendered.text, "RIGHTARG=")[2] = NamedSql(2)

----------------------------------------------------------------------------
(* #[pg_trigger]: PgTrigger::new and the generated wrapper                 *)
(* (pg_trigger/mod.rs)                                                     *)

\* ToSqlConfig { enabled, callback, content }; content is the literal's
\* value as a sequence of pieces, one of which may be the placeholder
ToSqlConfig(enabled, callback, content) ==
    [enabled |-> enabled, callback |-> callback, content |-> content]
ToSqlConfigDefault == ToSqlConfig(TRUE, None, None)

\* ToSqlConfig::overrides_default
overrides_default(config) ==
    ~config.enabled \/ IsSome(config.callback) \/ IsSome(config.content)

\* PgTriggerAttribute::Sql(config), and an attribute of the wildcard arm
Sql(config) == [k |-> "Sql", config |-> config]
OtherAttribute == [k |-> "Other", config |-> ToSqlConfigDefault]

\* a syn::ItemFn, as far as PgTrigger reads it
ItemFn(ident) == [sig |-> [ident |-> ident]]

FunctionNamePlaceholder == "@FUNCTION_NAME@"
ErrMultipleSql == "Multiple 'sql' arguments found, it must be unique"
ErrIdentTooLong == "Identifier was too long for PostgreSQL"

\* the length from which PostgreSQL truncates an identifier
POSTGRES_IDENTIFIER_MAX_LEN == 64

\* crate::ident_is_acceptable_to_postgres
ident_is_acceptable_to_postgres(ident) == Len(ident) < POSTGRES_IDENTIFIER_MAX_LEN

\* for attribute in attributes.iter() { match attribute { .. } }: the first
\* Sql is kept in found, a second Sql returns the error
RECURSIVE ScanAttributes(_, _, _)
ScanAttributes(attributes, idx, found) ==
    IF idx > Len(attributes) THEN [tag |-> "Ok", found |-> found]
    ELSE IF attributes[idx].k = "Sql" /\ ~IsSome(found)
         THEN ScanAttributes(attributes, idx + 1, Some(attributes[idx].config))
    ELSE IF attributes[idx].k = "Sql" /\ IsSome(found)
         THEN [tag |-> "Err", found |-> None]
    ELSE ScanAttributes(attributes, idx + 1, found)

\* str::replace over the pieces of the value
replace(value, from, to) ==
    [i \in DOMAIN value |-> IF value[i] = from THEN to ELSE value[i]]

\* a mutant: the placeholder is replaced by the function name itself
UpdateContentBareName(func, found) ==
    IF IsSome(found) /\ IsSome(Unwrap(found).content)
    THEN Some([Unwrap(found) EXCEPT !.content =
                 Some(replace(Unwrap(Unwrap(found).content), FunctionNamePlaceholder,
                              func.sig.ident) \o <<"\n">>)])
    ELSE found

\* if let Some(ref mut found) = found { if let Some(ref mut content) = .. }
UpdateContent(func, found) ==
    IF IsSome(found) /\ IsSome(Unwrap(found).content)
    THEN Some([Unwrap(found) EXCEPT !.content =
                 Some(replace(Unwrap(Unwrap(found).content), FunctionNamePlaceholder,
                              func.sig.ident \o "_wrapper") \o <<"\n">>)])
    ELSE found

\* found.unwrap_or_default()
unwrap_or_default(found) == IF IsSome(found) THEN Unwrap(found) ELSE ToSqlConfigDefault

NotMade == [tag |-> "NotMade"]
Made(func, to_sql_config) ==
    [tag |-> "Ok", func |-> func, to_sql_config |-> to_sql_config, err |-> ""]
MakeErr(msg) ==
    [tag |-> "Err", func |-> ItemFn(""), to_sql_config |-> ToSqlConfigDefault, err |-> msg]

\* PgTrigger::new(func, attributes) -> Result<Self, syn::Error>
new(func, attributes) ==
    LET scan == ScanAttributes(attributes, 1, None)
    IN  IF scan.tag = "Err" THEN MakeErr(ErrMultipleSql)
        ELSE LET to_sql_config == unwrap_or_default(UpdateContent(func, scan.found))
             IN  IF ~overrides_default(to_sql_config)
                    /\ ~ident_is_acceptable_to_postgres(func.sig.ident)
                 THEN MakeErr(ErrIdentTooLong)
                 ELSE Made(func, to_sql_config)

\* wrapper_tokens: the ident of the generated extern "C" function
extern_func_ident(self) == self.func.sig.ident \o "_wrapper"

\* PgTrigger::new is called on the declared function and its attributes
New ==
    /\ trigger.made = NotMade
    /\ trigger' = [trigger EXCEPT !.made = new(trigger.func, trigger.attributes)]
    /\ UNCHANGED <<entity, context, rendered, rty, classified, other, compared, renders, call>>
\* the generated wrapper, one activation: the locals of the function body,
\* the calls it has made so far and how the activation ended
Unset == [tag |-> "Unset", v |-> ""]
ResultOk(v) == [tag |-> "Ok", v |-> v]
ResultErr(v) == [tag |-> "Err", v |-> v]
OptionSome(v) == [tag |-> "Some", v |-> v]
OptionNone == [tag |-> "None", v |-> ""]

Running == [tag |-> "Running", v |-> ""]
ReturnedDatum(datum) == [tag |-> "Returned", v |-> datum]
Unwound(msg) == [tag |-> "Panic", v |-> msg]

Entered(self, fcinfo) ==
    [pc |-> "from_fcinfo", symbol |-> extern_func_ident(self), fcinfo |-> fcinfo,
     maybe_pg_trigger |-> Unset, pg_trigger |-> Unset,
     trigger_fn_result |-> Unset, trigger_retval |-> Unset, retval_datum |-> Unset,
     calls |-> <<>>, outcome |-> Running]

FcInfos == {"fcinfo_insert", "fcinfo_update", "fcinfo_null"}
Rows == {"new", "old", "current"}

\* what the three callees can answer; they are not part of the wrapper
FromFcinfoAnswers(fcinfo) == {ResultOk("trigger of " \o fcinfo), ResultErr("not a trigger")}
UserAnswers(pg_trigger) == {ResultOk(row) : row \in Rows} \cup {ResultErr("refused")}
IntoDatumAnswers(row) == {OptionSome("datum of " \o row), OptionNone}

\* the expect() of a Result or an Option: the value, or the panic
Expects(answer) == answer.tag \in {"Ok", "Some"}

WrapperFrame == <<entity, context, rendered, rty, classified, other, compared, renders, trigger>>

\* let maybe_pg_trigger = unsafe { PgTrigger::from_fcinfo(fcinfo) };
FromFcinfo ==
    /\ call.pc = "from_fcinfo"
    /\ \E answer \in FromFcinfoAnswers(call.fcinfo) :
           call' = [call EXCEPT !.maybe_pg_trigger = answer,
                                !.calls = Append(@, "from_fcinfo"),
                                !.pc = "expect_trigger"]
    /\ UNCHANGED WrapperFrame

\* a mutant: a failed from_fcinfo is replaced by a default context
ExpectTriggerOrDefault ==
    /\ call.pc = "expect_trigger"
    /\ call' = [call EXCEPT !.pg_trigger = ResultOk("default trigger"), !.pc = "invoke"]
    /\ UNCHANGED WrapperFrame

\* let pg_trigger = maybe_pg_trigger.expect("PgTrigger::from_fcinfo failed");
ExpectTrigger ==
    /\ call.pc = "expect_trigger"
    /\ call' = IF Expects(call.maybe_pg_trigger)
               THEN [call EXCEPT !.pg_trigger = call.maybe_pg_trigger, !.pc = "invoke"]
               ELSE [call EXCEPT !.outcome = Unwound("PgTrigger::from_fcinfo failed"),
                                 !.pc = "done"]
    /\ UNCHANGED WrapperFrame

\* let trigger_fn_result = #function_ident(&pg_trigger); the callable
\* answers with a row, with an error, or panics itself
Invoke ==
    /\ call.pc = "invoke"
    /\ \/ \E answer \in UserAnswers(call.pg_trigger.v) :
              call' = [call EXCEPT !.trigger_fn_result = answer,
                                   !.calls = Append(@, trigger.made.func.sig.ident),
                                   !.pc = "expect_retval"]
       \/ call' = [call EXCEPT !.calls = Append(@, trigger.made.func.sig.ident),
                               !.outcome = Unwound("panic in the trigger function"),
                               !.pc = "done"]
    /\ UNCHANGED WrapperFrame

\* let trigger_retval = trigger_fn_result.expect("Trigger function panic");
ExpectRetval ==
    /\ call.pc = "expect_retval"
    /\ call' = IF Expects(call.trigger_fn_result)
               THEN [call EXCEPT !.trigger_retval = call.trigger_fn_result,
                                 !.pc = "into_datum"]
               ELSE [call EXCEPT !.outcome = Unwound("Trigger function panic"),
                                 !.pc = "done"]
    /\ UNCHANGED WrapperFrame

\* let retval_datum = trigger_retval.into_datum();
IntoDatum ==
    /\ call.pc = "into_datum"
    /\ \E answer \in IntoDatumAnswers(call.trigger_retval.v) :
           call' = [call EXCEPT !.retval_datum = answer,
                                !.calls = Append(@, "into_datum"),
                                !.pc = "expect_datum"]
    /\ UNCHANGED WrapperFrame

\* retval_datum.expect("Failed to turn trigger function return value into Datum")
ExpectDatum ==
    /\ call.pc = "expect_datum"
    /\ call' = IF Expects(call.retval_datum)
               THEN [call EXCEPT !.outcome = ReturnedDatum(call.retval_datum.v),
                                 !.pc = "done"]
               ELSE [call EXCEPT !.outcome =
                         Unwound("Failed to turn trigger function return value into Datum"),
                                 !.pc = "done"]
    /\ UNCHANGED WrapperFrame

TriggerNames == {"audit", "validate_row"}

InitWrapper ==
    /\ \E ident \in TriggerNames, fcinfo \in FcInfos :
           /\ trigger = [func |-> ItemFn(ident), attributes |-> <<>>,
                         made |-> new(ItemFn(ident), <<>>)]
           /\ call = Entered(trigger.made, fcinfo)
    /\ entity = Entity(<<>>, <<>>, None, ReturnNone, None, None, None)
    /\ context = Context0
    /\ rendered = NotRendered
    /\ rty = NoReturnType
    /\ classified = NotClassified
    /\ IdleComparison

NextWrapper ==
    \/ FromFcinfo \/ ExpectTrigger \/ Invoke \/ ExpectRetval \/ IntoDatum \/ ExpectDatum

SpecWrapper == InitWrapper /\ [][NextWrapper]_vars

----------------------------------------------------------------------------
(* C23 *)

\* the callees in the order the wrapper reaches them
WrapperOrder == <<"from_fcinfo", trigger.made.func.sig.ident, "into_datum">>

IsPrefix(s, t) == Len(s) <= Len(t) /\ \A i \in DOMAIN s : s[i] = t[i]

\* some step of the activation has failed
StepFailed ==
    \/ call.maybe_pg_trigger.tag = "Err"
    \/ call.trigger_fn_result.tag = "Err"
    \/ call.retval_datum.tag = "None"

\* C23: the wrapper <name>_wrapper obtains the trigger context, then invokes
\* the user callable with it, then converts the returned row, each at most
\* once and in this order; it returns a value only when all three succeeded,
\* and that value is the converted row; after a failed step it ends in a
\* panic and returns nothing; the user callable is never invoked when the
\* context could not be obtained.
C23_WrapperSteps ==
    /\ call.symbol = trigger.made.func.sig.ident \o "_wrapper"
    /\ IsPrefix(call.calls, WrapperOrder)
    /\ call.outcome.tag = "Returned" =>
           /\ call.calls = WrapperOrder
           /\ call.maybe_pg_trigger.tag = "Ok"
           /\ call.trigger_fn_result.tag = "Ok"
           /\ call.retval_datum = OptionSome(call.outcome.v)
           /\ call.outcome.v \in {a.v : a \in IntoDatumAnswers(call.trigger_fn_result.v)}
    /\ (call.pc = "done" /\ StepFailed) => call.outcome.tag = "Panic"
    /\ call.pc = "done" => call.outcome.tag \in {"Returned", "Panic"}
    /\ call.pc # "done" => call.outcome = Running
    /\ call.maybe_pg_trigger.tag = "Err" =>
           ~Has(call.calls, trigger.made.func.sig.ident)
    /\ Has(call.calls, trigger.made.func.sig.ident) =>
           call.pg_trigger = call.maybe_pg_trigger

\* an activation returned a datum
C23_Witness ==
    /\ call.pc = "done"
    /\ call.outcome.tag = "Returned"
    /\ Len(call.calls) = 3

\* an activation ended in a panic because the context could not be obtained
C23_WitnessFailed ==
    /\ call.pc = "done"
    /\ call.maybe_pg_trigger.tag = "Err"
    /\ call.outcome.tag = "Panic"

----------------------------------------------------------------------------
(* Expansion family: every classified return type, emitted as an entity    *)

\* macro expansion emits the classified return shape; the realized return
\* value is not known before the extension is loaded
Expand ==
    /\ classified.tag = "Ok"
    /\ entity = Unassembled
    /\ entity' = Entity(<<>>, <<>>, None, to_tokens(classified.ret), None, None, None)
    /\ UNCHANGED <<context, rendered, rty, classified, other, compared, renders, trigger, call>>

InitExpand ==
    /\ rty \in ReturnTypes
    /\ classified = NotClassified
    /\ entity = Unassembled
    /\ context = Context0
    /\ rendered = NotRendered
    /\ IdleComparison
    /\ IdleTrigger

SpecExpand == InitExpand /\ [][Classify \/ Expand]_vars

----------------------------------------------------------------------------
(* C24 *)

EmittedReturn == entity.fn_return

\* C24: the emitted return entity keeps the composite name of every shape
\* position: a Type or SetOf carries the composite name the classifier
\* found, and column i of an Iterated carries the composite name of item i.
C24_CompositeNamesEmitted ==
    (classified.tag = "Ok" /\ entity # Unassembled) =>
        /\ EmittedReturn.v = classified.ret.v
        /\ classified.ret.v \in {"Type", "SetOf"} =>
               EmittedReturn.composite_type = classified.ret.sql
        /\ classified.ret.v = "Iterated" =>
               /\ Len(EmittedReturn.items) = Len(classified.ret.items)
               /\ \A i \in DOMAIN classified.ret.items :
                      EmittedReturn.items[i].composite_type = classified.ret.items[i].sql

----------------------------------------------------------------------------
(* Trigger family: declared trigger functions x attribute lists            *)

MaxTriggerAttrs == 3   \* attributes of one #[pg_trigger(..)]

TenChars == "abcdefghij"
SixtyChars == TenChars \o TenChars \o TenChars \o TenChars \o TenChars \o TenChars

\* a short name, the longest acceptable name and the shortest one that is not
TriggerIdents == {"audit", SixtyChars \o "xyz", SixtyChars \o "wxyz"}

ContentWithPlaceholders ==
    <<"CREATE TRIGGER t BEFORE INSERT ON tbl FOR EACH ROW EXECUTE PROCEDURE ",
      FunctionNamePlaceholder, "(); COMMENT ON FUNCTION ", FunctionNamePlaceholder,
      " IS 'trigger';">>

TriggerAttributePool ==
    {Sql(ToSqlConfig(TRUE, None, None)),
     Sql(ToSqlConfig(FALSE, None, None)),
     Sql(ToSqlConfig(TRUE, Some("my_callback"), None)),
     Sql(ToSqlConfig(TRUE, None, Some(ContentWithPlaceholders))),
     OtherAttribute}

InitTrigger ==
    /\ \E ident \in TriggerIdents, attributes \in SeqsUpTo(TriggerAttributePool, MaxTriggerAttrs) :
           trigger = [func |-> ItemFn(ident), attributes |-> attributes, made |-> NotMade]
    /\ call = NoCall
    /\ entity = Entity(<<>>, <<>>, None, ReturnNone, None, None, None)
    /\ context = Context0
    /\ rendered = NotRendered
    /\ rty = NoReturnType
    /\ classified = NotClassified
    /\ IdleComparison

SpecTrigger == InitTrigger /\ [][New]_vars

----------------------------------------------------------------------------
(* C25 *)

\* the positions of the sql attributes in the declared list
SqlPositions == {i \in DOMAIN trigger.attributes : trigger.attributes[i].k = "Sql"}

\* the configuration the declaration asks for: the sole sql attribute's, or
\* the default
DeclaredConfig ==
    IF SqlPositions = {} THEN ToSqlConfigDefault
    ELSE trigger.attributes[Min(SqlPositions)].config

\* the content is the declared one with every placeholder replaced by the
\* wrapper's symbol, followed by a newline
ContentNamesWrapper(declared, made) ==
    /\ Len(made) = Len(declared) + 1
    /\ made[Len(made)] = "\n"
    /\ \A i \in DOMAIN declared :
           made[i] = IF declared[i] = FunctionNamePlaceholder
                     THEN extern_func_ident(trigger.made)
                     ELSE declared[i]

\* C25: PgTrigger::new returns the error about multiple sql arguments
\* exactly when the list holds two or more sql attributes, wherever they
\* stand; with at most one it keeps that configuration (or the default),
\* with every @FUNCTION_NAME@ of its content replaced by the symbol of the
\* generated wrapper; the function name is checked as a database identifier
\* exactly when the configuration does not override the default.
C25_SqlAttributeUnique ==
    trigger.made # NotMade =>
        /\ Cardinality(SqlPositions) >= 2
               <=> (trigger.made.tag = "Err" /\ trigger.made.err = ErrMultipleSql)
        /\ Cardinality(SqlPositions) <= 1 =>
               /\ trigger.made.tag = "Ok" <=>
                      \/ overrides_default(DeclaredConfig)
                      \/ ident_is_acceptable_to_postgres(trigger.func.sig.ident)
               /\ trigger.made.tag = "Err" => trigger.made.err = ErrIdentTooLong
        /\ trigger.made.tag = "Ok" =>
               /\ trigger.made.func = trigger.func
               /\ trigger.made.to_sql_config.enabled = DeclaredConfig.enabled
               /\ trigger.made.to_sql_config.callback = DeclaredConfig.callback
               /\ IsSome(trigger.made.to_sql_config.content) = IsSome(DeclaredConfig.content)
               /\ IsSome(DeclaredConfig.content) =>
                      /\ ContentNamesWrapper(Unwrap(DeclaredConfig.content),
                                             Unwrap(trigger.made.to_sql_config.content))
                      /\ ~Has(Unwrap(trigger.made.to_sql_config.content),
                              FunctionNamePlaceholder)

\* a function whose name is too long for an identifier was accepted with one
\* sql attribute whose content names the wrapper twice
C25_Witness ==
    /\ trigger.made.tag = "Ok"
    /\ Cardinality(SqlPositions) = 1
    /\ Len(trigger.attributes) >= 2
    /\ ~ident_is_acceptable_to_postgres(trigger.func.sig.ident)
    /\ IsSome(trigger.made.to_sql_config.content)
    /\ Count(Unwrap(trigger.made.to_sql_config.content),
             trigger.func.sig.ident \o "_wrapper") = 2

\* a list with two sql attributes apart from each other was rejected
C25_WitnessMultiple ==
    /\ trigger.made.tag = "Err"
    /\ trigger.made.err = ErrMultipleSql
    /\ SqlPositions = {1, 3}

----------------------------------------------------------------------------
(* C26 *)

UnitType == TypeTuple(<<>>)

\* the declared return type is the empty tuple written out
DeclaresUnit == rty.k = "Type" /\ rty.ty = UnitType

\* C26: a return type written () classifies as Type of the unit type, with
\* no composite name; None is the classification of an absent return type
\* and of nothing else; an Iterated always has at least one column.
C26_UnitIsType ==
    classified.tag = "Ok" =>
        /\ DeclaresUnit => classified.ret = ReturningType(UnitType, None)
        /\ rty.k = "Default" => classified.ret.v = "None"
        /\ classified.ret.v = "None" => rty.k = "Default"
        /\ classified.ret.v = "Iterated" => Len(classified.ret.items) >= 1

====
